---- MODULE Spec2Model ----
(***************************************************************************)
(* Economic-calendar cache: the event store (EventRepository over the      *)
(* economic_events table) and the CalendarService synchronisation policy   *)
(* (fetch_month, fetch_today, refresh_month) that drives the scraper and   *)
(* the store; the scraper's retry loop around one day's fetch; the API's    *)
(* background refresh status; and two sync requests writing through        *)
(* sessions of their own.                                                  *)
(*                                                                         *)
(* Specifications: Spec (the service), SpecStore (upserts on the           *)
(* repository), SpecQuery (its read-only calls), SpecScraper and           *)
(* LiveScraper (fetch_day), SpecApi (refresh status), SpecRace (concurrent *)
(* sessions).  Each moves its own variables and leaves the others at       *)
(* their initial values.                                                   *)
(*                                                                         *)
(* A nullable column or field is the empty sequence when NULL/None and a   *)
(* one-element sequence <<v>> otherwise.  A date is the day number inside  *)
(* the modelled month.  The table is a bag of rows: the surrogate id       *)
(* column carries no information any operation reads and is left out.     *)
(***************************************************************************)
EXTENDS Integers, Sequences, FiniteSets, Bags, TLC

\* Bounds of the model.
NumDays == 2
MaxRows == 3
MaxClock == 1
MaxBatch == 1
MaxTasks == 2

NULL == <<>>

Days == 1..NumDays

(***************************************************************************)
(* Events the calendar page of day d can show.                             *)
(***************************************************************************)
PendingEvent(d) ==
    [date |-> d, time |-> <<830>>, currency |-> "USD", impact |-> "high",
     event_name |-> "CPI", actual |-> NULL, forecast |-> <<2>>,
     previous |-> <<1>>, event_type |-> "inflation", direction |-> 1,
     weight |-> 10]

PublishedEvent(d) ==
    [date |-> d, time |-> <<830>>, currency |-> "USD", impact |-> "medium",
     event_name |-> "CPI", actual |-> <<3>>, forecast |-> <<2>>,
     previous |-> <<2>>, event_type |-> "inflation", direction |-> 1,
     weight |-> 10]

HolidayEvent(d) ==
    [date |-> d, time |-> NULL, currency |-> "EUR", impact |-> "holiday",
     event_name |-> "Bank Holiday", actual |-> NULL, forecast |-> NULL,
     previous |-> NULL, event_type |-> "other", direction |-> 1,
     weight |-> 1]

\* What a successful fetch_day(d) can return.
Pages(d) ==
    { <<>>,
      <<PendingEvent(d)>>,
      <<PublishedEvent(d)>>,
      <<PendingEvent(d), HolidayEvent(d)>> }

(***************************************************************************)
(* String helpers: str.upper() and str.lower() on the strings in use.      *)
(***************************************************************************)
Upper(s) ==
    CASE s = "usd" -> "USD"
      [] s = "eur" -> "EUR"
      [] OTHER -> s

Lower(s) ==
    CASE s = "HIGH" -> "high"
      [] s = "Medium" -> "medium"
      [] OTHER -> s

RECURSIVE SeqFilterCurrency(_, _)
SeqFilterCurrency(events, allowed) ==
    IF events = <<>> THEN <<>>
    ELSE IF Upper(Head(events).currency) \in allowed
         THEN <<Head(events)>> \o SeqFilterCurrency(Tail(events), allowed)
         ELSE SeqFilterCurrency(Tail(events), allowed)

RECURSIVE SeqFilterHigh(_)
SeqFilterHigh(events) ==
    IF events = <<>> THEN <<>>
    ELSE IF Head(events).impact = "high"
         THEN <<Head(events)>> \o SeqFilterHigh(Tail(events))
         ELSE SeqFilterHigh(Tail(events))

UpperAll(currencies) == {Upper(currencies[i]) : i \in DOMAIN currencies}

(***************************************************************************)
(* blackbox.data.scoring: the surprise score, kept as an exact fraction.   *)
(***************************************************************************)
Abs(x) == IF x < 0 THEN -x ELSE x

\* The difference divided by the forecast itself.
calculate_surprise_signed(actual, forecast, direction) ==
    IF actual = NULL \/ forecast = NULL THEN NULL
    ELSE IF forecast[1] = 0 THEN NULL
    ELSE <<[num |-> direction * (actual[1] - forecast[1]),
            den |-> forecast[1]]>>

calculate_surprise(actual, forecast, direction) ==
    IF actual = NULL \/ forecast = NULL THEN NULL
    ELSE IF forecast[1] = 0 THEN NULL
    ELSE <<[num |-> direction * (actual[1] - forecast[1]),
            den |-> Abs(forecast[1])]>>

(***************************************************************************)
(* EventRepository                                                         *)
(***************************************************************************)
\* uq_event: UNIQUE (date, time, currency, event_name).  SQL compares a NULL
\* time as distinct from every value, another NULL included.
Conflicts(r, e) ==
    /\ r.time # NULL
    /\ e.time # NULL
    /\ r.date = e.date
    /\ r.time = e.time
    /\ r.currency = e.currency
    /\ r.event_name = e.event_name

\* The row INSERT creates: surprise is not in VALUES, scraped_at takes its
\* server default, updated_at stays NULL.
InsertRow(e, now) ==
    [date |-> e.date, time |-> e.time, currency |-> e.currency,
     impact |-> e.impact, event_name |-> e.event_name, actual |-> e.actual,
     forecast |-> e.forecast, previous |-> e.previous,
     event_type |-> e.event_type, direction |-> e.direction,
     weight |-> e.weight, surprise |-> NULL, scraped_at |-> now,
     updated_at |-> NULL]

\* ON CONFLICT ON CONSTRAINT uq_event DO UPDATE SET ...
UpdateRow(r, e, now) ==
    [r EXCEPT !.actual = e.actual, !.forecast = e.forecast,
              !.previous = e.previous, !.impact = e.impact,
              !.event_type = e.event_type, !.direction = e.direction,
              !.weight = e.weight, !.updated_at = <<now>>]

Copies(r, n) == [x \in {r} |-> n]

RECURSIVE UpdateHits(_, _, _, _)
UpdateHits(rows, hit, e, now) ==
    IF hit = {} THEN rows
    ELSE LET r == CHOOSE x \in hit : TRUE
             n == CopiesIn(r, rows)
         IN UpdateHits((rows (-) Copies(r, n)) (+) Copies(UpdateRow(r, e, now), n),
                       hit \ {r}, e, now)

RECURSIVE UpsertRows(_, _, _)
UpsertRows(rows, events, now) ==
    IF events = <<>> THEN rows
    ELSE LET e == Head(events)
             hit == {r \in BagToSet(rows) : Conflicts(r, e)}
             next == IF hit = {}
                     THEN rows (+) Copies(InsertRow(e, now), 1)
                     ELSE UpdateHits(rows, hit, e, now)
         IN UpsertRows(next, Tail(events), now)

\* Variant: the statement first deletes the stored rows of the dates it
\* writes, so that a date holds exactly the events of its latest page.
upsert_events_replacing(rows, events, now) ==
    IF events = <<>> THEN [rows |-> rows, count |-> 0]
    ELSE LET dates == {events[i].date : i \in DOMAIN events}
             kept == [r \in {x \in BagToSet(rows) : x.date \notin dates}
                         |-> CopiesIn(r, rows)]
         IN [rows |-> UpsertRows(kept, events, now), count |-> Len(events)]

upsert_events(rows, events, now) ==
    IF events = <<>> THEN [rows |-> rows, count |-> 0]
    ELSE [rows |-> UpsertRows(rows, events, now), count |-> Len(events)]

_to_pydantic(r) ==
    [date |-> r.date, time |-> r.time, currency |-> r.currency,
     impact |-> r.impact, event_name |-> r.event_name, actual |-> r.actual,
     forecast |-> r.forecast, previous |-> r.previous,
     event_type |-> r.event_type, direction |-> r.direction,
     weight |-> r.weight]

\* ORDER BY date, time: ascending, NULL times after the timed rows of the
\* same date.  Rows equal on both come out in an order SQL leaves open.
RowBefore(a, b) ==
    \/ a.date < b.date
    \/ /\ a.date = b.date
       /\ \/ a.time # NULL /\ b.time = NULL
          \/ a.time # NULL /\ b.time # NULL /\ a.time[1] < b.time[1]

RECURSIVE Repeat(_, _)
Repeat(x, n) == IF n = 0 THEN <<>> ELSE <<x>> \o Repeat(x, n - 1)

RECURSIVE OrderRows(_)
OrderRows(rows) ==
    IF BagToSet(rows) = {} THEN <<>>
    ELSE LET first == CHOOSE a \in BagToSet(rows) :
                          \A b \in BagToSet(rows) : ~RowBefore(b, a)
             n == CopiesIn(first, rows)
         IN Repeat(first, n) \o OrderRows(rows (-) Copies(first, n))

ImpactLevel(name) ==
    CASE name = "low" -> 1
      [] name = "medium" -> 2
      [] name = "high" -> 3
      [] OTHER -> 0

ImpactAtLeast(level) == {k \in {"low", "medium", "high"} : ImpactLevel(k) >= level}

get_events(rows, start_date, end_date, currencies, impact) ==
    LET min_level == IF impact # "" THEN ImpactLevel(Lower(impact)) ELSE 0
        Selected(r) ==
            /\ r.date >= start_date
            /\ r.date <= end_date
            /\ currencies # <<>> => r.currency \in UpperAll(currencies)
            /\ min_level > 0 => r.impact \in ImpactAtLeast(min_level)
        selected == [r \in {x \in BagToSet(rows) : Selected(x)}
                         |-> CopiesIn(r, rows)]
        ordered == OrderRows(selected)
    IN [i \in 1..Len(ordered) |-> _to_pydantic(ordered[i])]

get_events_for_date(rows, event_date) ==
    get_events(rows, event_date, event_date, <<>>, "")

\* Variant: the dates come out latest first.
RECURSIVE DescendingDates(_)
DescendingDates(ds) ==
    IF ds = {} THEN <<>>
    ELSE LET m == CHOOSE a \in ds : \A b \in ds : a >= b
         IN <<m>> \o DescendingDates(ds \ {m})

RECURSIVE AscendingDates(_)
AscendingDates(ds) ==
    IF ds = {} THEN <<>>
    ELSE LET m == CHOOSE a \in ds : \A b \in ds : a <= b
         IN <<m>> \o AscendingDates(ds \ {m})

\* Variant: a strict comparison with today leaves today's date out.
get_events_needing_update_strict(rows, start_date, end_date, now_date) ==
    AscendingDates({r.date : r \in
        {x \in BagToSet(rows) : /\ x.date >= start_date
                                /\ x.date <= end_date
                                /\ x.date > now_date
                                /\ x.actual = NULL}})

\* Variant: no DISTINCT, one entry for every row that matches.
get_events_needing_update_rows(rows, start_date, end_date, now_date) ==
    LET matching == [r \in {x \in BagToSet(rows) : /\ x.date >= start_date
                                                    /\ x.date <= end_date
                                                    /\ x.date >= now_date
                                                    /\ x.actual = NULL}
                         |-> CopiesIn(r, rows)]
        ordered == OrderRows(matching)
    IN [i \in 1..Len(ordered) |-> ordered[i].date]

\* SELECT DISTINCT date ... ORDER BY date
get_events_needing_update(rows, start_date, end_date, now_date) ==
    AscendingDates({r.date : r \in
        {x \in BagToSet(rows) : /\ x.date >= start_date
                                /\ x.date <= end_date
                                /\ x.date >= now_date
                                /\ x.actual = NULL}})

(***************************************************************************)
(* State                                                                   *)
(***************************************************************************)
VARIABLES
    db,       \* committed rows of economic_events
    pending,  \* the open session's view: db plus its uncommitted changes
    clock,    \* the database's now()
    today,    \* date.today()
    req,      \* the service call in progress (its locals and position)
    calls,    \* day-fetches the current call issued on the scraper, in order
    stored0,  \* dates that had committed rows when the current call started
    result,   \* outcome of the most recent service call
    last,     \* most recent direct repository call: arguments and return
    read,     \* most recent read-only repository call: arguments and return
    fetch,    \* the scraper's fetch_day call in progress and its attempts
    tasks,    \* background refresh tasks of the API process, by task number
    _refresh_status,  \* the API module's global _refresh_status
    sess,     \* transactions of concurrently running sync requests
    prior,    \* the fetch_month call before the current one, when the caller
              \* issued the two back to back
    scrape,   \* the scraper's own fetch_month call in progress
    parse,    \* the latest _parse_calendar_page call: markup, date, outcome
    meta,     \* the latest get_event_metadata call: table order, name, outcome
    score,    \* the latest calculate_surprise call: arguments and outcome
    signal,   \* the latest get_bias_signal call: arguments and outcome
    decay,    \* the latest calculate_decay call: arguments and outcome
    norm,     \* the latest normalize_value call: argument and outcome
    bias,     \* the latest ScoringService call: arguments and outcome
    held      \* the browser and the store session of a service call, and
              \* where the call stands between taking and releasing them

vars == <<db, pending, clock, today, req, calls, stored0, result, last,
          read, fetch, tasks, _refresh_status, sess, prior, scrape,
          parse, meta, score, signal, decay, norm, bias, held>>

\* State of the store and of the service call in progress.
service ==
    <<db, pending, clock, today, req, calls, stored0, result, last, read>>

\* State of the scraper's retry loop, of the API process and of the
\* concurrent sessions.
processes == <<fetch, tasks, _refresh_status, sess>>

\* The latest calls of the functions that keep no state.
pure == <<parse, meta, score, signal, decay, norm, bias, held>>

\* State of the repeated call and of the scraper's month loop, and the calls
\* of the functions that keep no state.
aside == <<prior, scrape, pure>>

\* State of the scraper, of the API process and of the concurrent sessions.
others == <<fetch, tasks, _refresh_status, sess, aside>>

NoReq ==
    [op |-> "none", force |-> FALSE, pc |-> "idle", day |-> 1, skip |-> {},
     todo |-> <<>>, idx |-> 1, events |-> <<>>, cached |-> <<>>,
     count |-> 0, total |-> 0, failed |-> "", again |-> FALSE]

NoResult == [kind |-> "none", events |-> <<>>, count |-> 0,
             currencies |-> <<>>, impact |-> "", high |-> FALSE,
             error |-> ""]

NoCall == [call |-> "none", events |-> <<>>, count |-> 0, month |-> 0]

NoStats ==
    [total_events |-> 0, by_currency |-> {}, by_impact |-> {},
     date_range |-> <<NULL, NULL>>]

\* A read-only call of the repository: its name, its arguments, what it
\* returned, and whether it repeats the call before it with no write between.
NoRead ==
    [call |-> "none", start_date |-> 1, end_date |-> 1, currencies |-> <<>>,
     impact |-> "", events |-> <<>>, dates |-> <<>>, has |-> FALSE,
     stats |-> NoStats, again |-> FALSE]

NoFetch ==
    [pc |-> "idle", date |-> 1, attempts |-> <<>>, events |-> <<>>,
     error |-> ""]

TaskIds == 1..MaxTasks

\* A background task: where it is, and whether it has been the only running
\* task since it started.
NoTask == [pc |-> "none", alone |-> FALSE]

NoMessage == [text |-> "No refresh in progress", count |-> 0]

\* Two sync requests, each with a session of its own.
Sessions == {"A", "B"}

\* A session's transaction: idle, waiting for a row another transaction holds,
\* or open with its upsert done and not yet committed; the events of its
\* upsert, its now(), and whether it ran beside a transaction of the other
\* request that upserts one of the same natural keys.
NoTx == [pc |-> "idle", events |-> <<>>, now |-> 0, raced |-> FALSE]

\* What a caller who calls fetch_month twice in a row keeps of the first
\* call when the second starts: whether it was a non-force call whose
\* day-fetches all returned and left no date needing an update, and if so
\* the events and the filters of its result.
NoPrior ==
    [filled |-> FALSE, events |-> <<>>, currencies |-> <<>>, impact |-> ""]

\* ForexFactoryScraper.fetch_month in progress: the loop's day, the
\* currencies argument, the CalendarDay list built so far, and the days
\* whose fetch_day raised.
NoScrape ==
    [pc |-> "idle", day |-> 1, currencies |-> <<>>, days |-> <<>>,
     failed |-> {}]

NoParse ==
    [pc |-> "none", html |-> <<>>, target_date |-> 1,
     out |-> [kind |-> "none", events |-> <<>>]]

NoMeta ==
    [pc |-> "none", patterns |-> <<>>, event_name |-> "",
     out |-> [event_type |-> "", direction |-> 0, weight |-> 0]]

NoScore ==
    [pc |-> "none", actual |-> <<>>, forecast |-> <<>>, direction |-> 1,
     out |-> <<>>]

NoSignal == [pc |-> "none", bias |-> 0, threshold |-> 0, out |-> ""]

NoDecay ==
    [pc |-> "none", event_time |-> 0, reference_time |-> 0,
     half_life_hours |-> 1, out |-> [kind |-> "none"]]

NoNorm == [pc |-> "none", value |-> <<>>, out |-> <<>>]

NoBias ==
    [call |-> "none", base |-> "", quote |-> "", at_time |-> 0,
     out |-> [kind |-> "none"]]

NoHeld ==
    [op |-> "none", skip_existing |-> FALSE, pc |-> "idle", day |-> 1,
     todo |-> 0, browser |-> FALSE, session |-> "none", dirty |-> FALSE,
     raising |-> FALSE, swallowed |-> FALSE, lost |-> FALSE,
     exit |-> "none"]

StoredDates(rows) == {r.date : r \in BagToSet(rows)}

Init ==
    /\ db = EmptyBag
    /\ pending = EmptyBag
    /\ clock = 0
    /\ today \in Days
    /\ req = NoReq
    /\ calls = <<>>
    /\ stored0 = {}
    /\ result = NoResult
    /\ last = NoCall
    /\ read = NoRead
    /\ fetch = NoFetch
    /\ tasks = [t \in TaskIds |-> NoTask]
    /\ _refresh_status = [status |-> "idle", message |-> NoMessage]
    /\ sess = [s \in Sessions |-> NoTx]
    /\ prior = NoPrior
    /\ scrape = NoScrape
    /\ parse = NoParse
    /\ meta = NoMeta
    /\ score = NoScore
    /\ signal = NoSignal
    /\ decay = NoDecay
    /\ norm = NoNorm
    /\ bias = NoBias
    /\ held = NoHeld

Free == req.pc \in {"idle", "done"}

\* The session's transaction is aborted: a statement of it raised, and until
\* the transaction ends the database refuses every further statement.
Aborted == req.failed = "upsert"

\* Filter arguments a caller passes to fetch_month and to fetch_today.
MonthFilters ==
    { [currencies |-> <<>>, impact |-> ""],
      [currencies |-> <<"usd">>, impact |-> "Medium"],
      [currencies |-> <<"EUR">>, impact |-> "HIGH"] }

TodayFilters ==
    { [currencies |-> <<>>, high |-> FALSE],
      [currencies |-> <<"usd">>, high |-> FALSE],
      [currencies |-> <<"eur">>, high |-> TRUE] }

\* A day-fetch the service issued: the pass it belongs to, the date, whether
\* fetch_day returned, and the count upsert_events returned for its events.
Call(pass, d, ok) == [pass |-> pass, date |-> d, ok |-> ok, count |-> 0]

(***************************************************************************)
(* CalendarService.fetch_month / refresh_month: entry                      *)
(***************************************************************************)
\* Variant: resume after the latest stored day instead of skipping only the
\* stored days.
DatesToSkipResume(rows, skip_existing) ==
    IF skip_existing
    THEN {d \in Days : \E r \in BagToSet(rows) : d <= r.date}
    ELSE {}

\* Variant: the stored days are skipped whether or not skip_existing is set.
DatesToSkipAlways(rows, skip_existing) ==
    {r.date : r \in BagToSet(rows)}

\* Variant: no day is skipped.
DatesToSkipNone(rows, skip_existing) == {}

\* dates_to_skip of _scrape_and_store_month
DatesToSkip(rows, skip_existing) ==
    IF skip_existing
    THEN LET existing_events == get_events(rows, 1, NumDays, <<>>, "")
         IN {existing_events[i].date : i \in DOMAIN existing_events}
    ELSE {}

StartFetchMonth(force_refresh) ==
    /\ Free
    /\ pending' = db
    /\ req' = [NoReq EXCEPT !.op = "fetch_month", !.force = force_refresh,
                            !.pc = "month",
                            !.skip = DatesToSkip(db, ~force_refresh)]
    /\ calls' = <<>>
    /\ stored0' = StoredDates(db)
    /\ result' = NoResult
    /\ UNCHANGED <<db, clock, today, last, read, others>>

StartRefreshMonth ==
    /\ Free
    /\ pending' = db
    /\ req' = [NoReq EXCEPT !.op = "refresh_month", !.pc = "month",
                            !.skip = DatesToSkip(db, FALSE)]
    /\ calls' = <<>>
    /\ stored0' = StoredDates(db)
    /\ result' = NoResult
    /\ UNCHANGED <<db, clock, today, last, read, others>>

(***************************************************************************)
(* CalendarService._scrape_and_store_month: one loop iteration per day     *)
(***************************************************************************)
MonthSkip ==
    /\ req.pc = "month"
    /\ req.day <= NumDays
    /\ req.day \in req.skip
    /\ req' = [req EXCEPT !.day = req.day + 1]
    /\ UNCHANGED <<db, pending, clock, today, calls, stored0, result, last, read, others>>

MonthFetchOk ==
    /\ req.pc = "month"
    /\ req.day <= NumDays
    /\ req.day \notin req.skip
    /\ \E page \in Pages(req.day) :
          req' = [req EXCEPT !.events = page, !.pc = "month_upsert"]
    /\ calls' = Append(calls, Call("month", req.day, TRUE))
    /\ UNCHANGED <<db, pending, clock, today, stored0, result, last, read, others>>

\* fetch_day raised after its retries: caught, logged, next day.
MonthFetchFail ==
    /\ req.pc = "month"
    /\ req.day <= NumDays
    /\ req.day \notin req.skip
    /\ req' = [req EXCEPT !.day = req.day + 1]
    /\ calls' = Append(calls, Call("month", req.day, FALSE))
    /\ UNCHANGED <<db, pending, clock, today, stored0, result, last, read, others>>

\* Variant: the session commits after the first row of the statement.
MonthUpsertRowCommit ==
    /\ req.pc = "month_upsert"
    /\ LET r == upsert_events(pending, req.events, clock)
           first == upsert_events(pending,
                                  IF req.events = <<>> THEN <<>>
                                  ELSE <<Head(req.events)>>, clock)
       IN /\ BagCardinality(r.rows) <= MaxRows
          /\ pending' = r.rows
          /\ db' = first.rows
          /\ req' = [req EXCEPT !.count = r.count, !.pc = "month_commit"]
          /\ calls' = [calls EXCEPT ![Len(calls)].count = r.count]
    /\ UNCHANGED <<clock, today, stored0, result, last, read, others>>

MonthUpsert ==
    /\ req.pc = "month_upsert"
    /\ ~Aborted
    /\ LET r == upsert_events(pending, req.events, clock)
       IN /\ BagCardinality(r.rows) <= MaxRows
          /\ pending' = r.rows
          /\ req' = [req EXCEPT !.count = r.count, !.pc = "month_commit"]
          /\ calls' = [calls EXCEPT ![Len(calls)].count = r.count]
    /\ UNCHANGED <<db, clock, today, stored0, result, last, read, others>>

\* Variant: no commit per day, the rows wait for the commit at the end of the
\* session.
MonthCommitDeferred ==
    /\ req.pc = "month_commit"
    /\ req' = [req EXCEPT !.total = req.total + req.count,
                          !.day = req.day + 1, !.pc = "month"]
    /\ UNCHANGED <<db, pending, clock, today, calls, stored0, result, last, read, others>>

MonthCommit ==
    /\ req.pc = "month_commit"
    /\ db' = pending
    /\ req' = [req EXCEPT !.total = req.total + req.count,
                          !.day = req.day + 1, !.pc = "month"]
    /\ UNCHANGED <<pending, clock, today, calls, stored0, result, last, read, others>>

\* Variant: the count returned is the number of rows the table holds.
RefreshMonthReturnStored ==
    /\ req.pc = "month"
    /\ req.day > NumDays
    /\ req.op = "refresh_month"
    /\ db' = pending
    /\ req' = [req EXCEPT !.pc = "done"]
    /\ result' = [NoResult EXCEPT !.kind = "ok",
                                  !.count = BagCardinality(pending)]
    /\ UNCHANGED <<pending, clock, today, calls, stored0, last, read, others>>

\* refresh_month: the loop is over, return total_count; get_session commits.
RefreshMonthReturn ==
    /\ req.pc = "month"
    /\ req.day > NumDays
    /\ req.op = "refresh_month"
    /\ db' = pending
    /\ req' = [req EXCEPT !.pc = "done"]
    /\ result' = [NoResult EXCEPT !.kind = "ok", !.count = req.total]
    /\ UNCHANGED <<pending, clock, today, calls, stored0, last, read, others>>

\* fetch_month after _scrape_and_store_month: the force branch goes straight
\* to the return, the normal branch asks the store which dates need an update.
FetchMonthAfterPass ==
    /\ req.pc = "month"
    /\ req.day > NumDays
    /\ req.op = "fetch_month"
    /\ ~Aborted
    /\ IF req.force
       THEN req' = [req EXCEPT !.pc = "return"]
       ELSE LET dates_to_update ==
                    get_events_needing_update(pending, 1, NumDays, today)
            IN req' = [req EXCEPT !.todo = dates_to_update,
                                  !.pc = IF dates_to_update # <<>>
                                         THEN "dates" ELSE "return"]
    /\ UNCHANGED <<db, pending, clock, today, calls, stored0, result, last, read, others>>

(***************************************************************************)
(* CalendarService._scrape_and_store_dates                                 *)
(***************************************************************************)
DatesFetchOk ==
    /\ req.pc = "dates"
    /\ req.idx <= Len(req.todo)
    /\ \E page \in Pages(req.todo[req.idx]) :
          req' = [req EXCEPT !.events = page, !.pc = "dates_upsert"]
    /\ calls' = Append(calls, Call("dates", req.todo[req.idx], TRUE))
    /\ UNCHANGED <<db, pending, clock, today, stored0, result, last, read, others>>

\* fetch_day raised (ScraperError, or its subclass ParsingError): nothing
\* catches it before get_session, which rolls the session back and re-raises
\* out of fetch_month.
DatesFetchFail ==
    /\ req.pc = "dates"
    /\ req.idx <= Len(req.todo)
    /\ calls' = Append(calls, Call("dates", req.todo[req.idx], FALSE))
    /\ pending' = db
    /\ req' = [req EXCEPT !.pc = "done"]
    /\ result' = [NoResult EXCEPT !.kind = "raised",
                                  !.error = "ScraperError"]
    /\ UNCHANGED <<db, clock, today, stored0, last, read, others>>

DatesUpsert ==
    /\ req.pc = "dates_upsert"
    /\ LET r == upsert_events(pending, req.events, clock)
       IN /\ BagCardinality(r.rows) <= MaxRows
          /\ pending' = r.rows
          /\ req' = [req EXCEPT !.count = r.count, !.pc = "dates_commit"]
          /\ calls' = [calls EXCEPT ![Len(calls)].count = r.count]
    /\ UNCHANGED <<db, clock, today, stored0, result, last, read, others>>

DatesCommit ==
    /\ req.pc = "dates_commit"
    /\ db' = pending
    /\ req' = [req EXCEPT !.total = req.total + req.count,
                          !.idx = req.idx + 1, !.pc = "dates"]
    /\ UNCHANGED <<pending, clock, today, calls, stored0, result, last, read, others>>

DatesDone ==
    /\ req.pc = "dates"
    /\ req.idx > Len(req.todo)
    /\ req' = [req EXCEPT !.pc = "return"]
    /\ UNCHANGED <<db, pending, clock, today, calls, stored0, result, last, read, others>>

\* Variant: the filters of the call are not handed to the query.
FetchMonthReturnUnfiltered ==
    /\ req.pc = "return"
    /\ \E f \in MonthFilters :
          result' = [NoResult EXCEPT
                        !.kind = "ok",
                        !.events = get_events(pending, 1, NumDays, <<>>, ""),
                        !.currencies = f.currencies,
                        !.impact = f.impact]
    /\ db' = pending
    /\ req' = [req EXCEPT !.pc = "done"]
    /\ UNCHANGED <<pending, clock, today, calls, stored0, last, read, others>>

\* return repo.get_events(start_date, end_date, currencies, impact)
FetchMonthReturn ==
    /\ req.pc = "return"
    /\ \E f \in MonthFilters :
          result' = [NoResult EXCEPT
                        !.kind = "ok",
                        !.events = get_events(pending, 1, NumDays,
                                              f.currencies, f.impact),
                        !.currencies = f.currencies,
                        !.impact = f.impact]
    /\ db' = pending
    /\ req' = [req EXCEPT !.pc = "done"]
    /\ UNCHANGED <<pending, clock, today, calls, stored0, last, read, others>>

(***************************************************************************)
(* CalendarService.fetch_today and _scrape_and_store_day                   *)
(***************************************************************************)
\* Variant: today is scraped whether or not the store has events for it.
StartFetchTodayAlwaysScrape ==
    /\ Free
    /\ pending' = db
    /\ LET events == get_events_for_date(db, today)
       IN req' = [NoReq EXCEPT !.op = "fetch_today", !.cached = events,
                               !.events = events, !.pc = "day_fetch"]
    /\ calls' = <<>>
    /\ stored0' = StoredDates(db)
    /\ result' = NoResult
    /\ UNCHANGED <<db, clock, today, last, read, others>>

StartFetchToday ==
    /\ Free
    /\ pending' = db
    /\ LET events == get_events_for_date(db, today)
       IN req' = [NoReq EXCEPT !.op = "fetch_today", !.cached = events,
                               !.events = events,
                               !.pc = IF events = <<>> THEN "day_fetch"
                                      ELSE "today_return"]
    /\ calls' = <<>>
    /\ stored0' = StoredDates(db)
    /\ result' = NoResult
    /\ UNCHANGED <<db, clock, today, last, read, others>>

DayFetchOk ==
    /\ req.pc = "day_fetch"
    /\ \E page \in Pages(today) :
          req' = [req EXCEPT !.events = page, !.pc = "day_upsert"]
    /\ calls' = Append(calls, Call("day", today, TRUE))
    /\ UNCHANGED <<db, pending, clock, today, stored0, result, last, read, others>>

DayFetchFail ==
    /\ req.pc = "day_fetch"
    /\ calls' = Append(calls, Call("day", today, FALSE))
    /\ pending' = db
    /\ req' = [req EXCEPT !.pc = "done"]
    /\ result' = [NoResult EXCEPT !.kind = "raised",
                                  !.error = "ScraperError"]
    /\ UNCHANGED <<db, clock, today, stored0, last, read, others>>

DayUpsert ==
    /\ req.pc = "day_upsert"
    /\ LET r == upsert_events(pending, req.events, clock)
       IN /\ BagCardinality(r.rows) <= MaxRows
          /\ pending' = r.rows
          /\ req' = [req EXCEPT !.count = r.count, !.pc = "day_commit"]
          /\ calls' = [calls EXCEPT ![Len(calls)].count = r.count]
    /\ UNCHANGED <<db, clock, today, stored0, result, last, read, others>>

DayCommit ==
    /\ req.pc = "day_commit"
    /\ db' = pending
    /\ req' = [req EXCEPT !.pc = "today_return"]
    /\ UNCHANGED <<pending, clock, today, calls, stored0, result, last, read, others>>

FetchTodayReturn ==
    /\ req.pc = "today_return"
    /\ \E f \in TodayFilters :
          LET byCur == IF f.currencies # <<>>
                       THEN SeqFilterCurrency(req.events, UpperAll(f.currencies))
                       ELSE req.events
              byImp == IF f.high THEN SeqFilterHigh(byCur) ELSE byCur
          IN result' = [NoResult EXCEPT !.kind = "ok", !.events = byImp,
                                        !.currencies = f.currencies,
                                        !.high = f.high]
    /\ db' = pending
    /\ req' = [req EXCEPT !.pc = "done"]
    /\ UNCHANGED <<pending, clock, today, calls, stored0, last, read, others>>

(***************************************************************************)
(* Environment                                                             *)
(***************************************************************************)
\* The process dies in the middle of a call: the open transaction is lost.
Crash ==
    /\ ~Free
    /\ pending' = db
    /\ req' = NoReq
    /\ result' = [NoResult EXCEPT !.kind = "crashed"]
    /\ UNCHANGED <<db, clock, today, calls, stored0, last, read, others>>

Tick ==
    /\ clock < MaxClock
    /\ clock' = clock + 1
    /\ UNCHANGED <<db, pending, today, req, calls, stored0, result, last, read, others>>

Next ==
    \/ StartFetchMonth(TRUE)
    \/ StartFetchMonth(FALSE)
    \/ StartRefreshMonth
    \/ MonthSkip
    \/ MonthFetchOk
    \/ MonthFetchFail
    \/ MonthUpsert
    \/ MonthCommit
    \/ RefreshMonthReturn
    \/ FetchMonthAfterPass
    \/ DatesFetchOk
    \/ DatesFetchFail
    \/ DatesUpsert
    \/ DatesCommit
    \/ DatesDone
    \/ FetchMonthReturn
    \/ StartFetchToday
    \/ DayFetchOk
    \/ DayFetchFail
    \/ DayUpsert
    \/ DayCommit
    \/ FetchTodayReturn
    \/ Crash

Spec == Init /\ [][Next]_vars

(***************************************************************************)
(* The service over a store whose statements and commits can raise         *)
(***************************************************************************)
\* _scrape_and_store_month: upsert_events raised inside the try block; the
\* except Exception clause logs the day as failed and the loop goes on.
MonthUpsertFail ==
    /\ req.pc = "month_upsert"
    /\ pending' = db
    /\ req' = [req EXCEPT !.failed = "upsert", !.day = req.day + 1,
                          !.pc = "month"]
    /\ UNCHANGED <<db, clock, today, calls, stored0, result, last, read, others>>

\* _scrape_and_store_month: session.commit() raised inside the try block; the
\* session rolls the transaction back, the except Exception clause logs the
\* day as failed and the loop goes on.
MonthCommitFail ==
    /\ req.pc = "month_commit"
    /\ pending' = db
    /\ req' = [req EXCEPT !.failed = "commit", !.day = req.day + 1,
                          !.pc = "month"]
    /\ UNCHANGED <<db, clock, today, calls, stored0, result, last, read, others>>

\* fetch_month after the pass, on an aborted transaction: the next statement
\* (get_events_needing_update, or get_events in a forced call) raises;
\* get_session rolls back and re-raises.
FetchMonthAborted ==
    /\ req.pc = "month"
    /\ req.day > NumDays
    /\ req.op = "fetch_month"
    /\ Aborted
    /\ pending' = db
    /\ req' = [req EXCEPT !.pc = "done"]
    /\ result' = [NoResult EXCEPT !.kind = "raised",
                                  !.error = "SQLAlchemyError"]
    /\ UNCHANGED <<db, clock, today, calls, stored0, last, read, others>>

\* _scrape_and_store_dates: upsert_events or session.commit() raised; nothing
\* catches it before get_session, which rolls back and re-raises.
DatesStoreFail ==
    /\ req.pc \in {"dates_upsert", "dates_commit"}
    /\ pending' = db
    /\ req' = [req EXCEPT !.failed = IF req.pc = "dates_upsert"
                                     THEN "upsert" ELSE "commit",
                          !.pc = "done"]
    /\ result' = [NoResult EXCEPT !.kind = "raised",
                                  !.error = "SQLAlchemyError"]
    /\ UNCHANGED <<db, clock, today, calls, stored0, last, read, others>>

\* _scrape_and_store_day: upsert_events or session.commit() raised; nothing
\* catches it before get_session, which rolls back and re-raises.
DayStoreFail ==
    /\ req.pc \in {"day_upsert", "day_commit"}
    /\ pending' = db
    /\ req' = [req EXCEPT !.failed = IF req.pc = "day_upsert"
                                     THEN "upsert" ELSE "commit",
                          !.pc = "done"]
    /\ result' = [NoResult EXCEPT !.kind = "raised",
                                  !.error = "SQLAlchemyError"]
    /\ UNCHANGED <<db, clock, today, calls, stored0, last, read, others>>

NextFaulty ==
    \/ StartFetchMonth(TRUE)
    \/ StartFetchMonth(FALSE)
    \/ StartRefreshMonth
    \/ MonthSkip
    \/ MonthFetchOk
    \/ MonthFetchFail
    \/ MonthUpsert
    \/ MonthUpsertFail
    \/ MonthCommit
    \/ MonthCommitFail
    \/ RefreshMonthReturn
    \/ FetchMonthAfterPass
    \/ FetchMonthAborted
    \/ DatesFetchOk
    \/ DatesFetchFail
    \/ DatesUpsert
    \/ DatesStoreFail
    \/ DatesCommit
    \/ DatesDone
    \/ FetchMonthReturn
    \/ StartFetchToday
    \/ DayFetchOk
    \/ DayFetchFail
    \/ DayUpsert
    \/ DayStoreFail
    \/ DayCommit
    \/ FetchTodayReturn

SpecFaulty == Init /\ [][NextFaulty]_vars

(***************************************************************************)
(* fetch_month called twice in a row, as                                   *)
(* test_fetch_month_uses_cache_when_data_exists calls it                   *)
(***************************************************************************)
\* The second call: a non-force fetch_month right after a fetch_month
\* returned.
FetchMonthAgain ==
    /\ req.pc = "done"
    /\ req.op = "fetch_month"
    /\ result.kind = "ok"
    /\ prior' = IF /\ ~req.force
                    /\ \A i \in DOMAIN calls : calls[i].ok
                    /\ get_events_needing_update(db, 1, NumDays, today) = <<>>
                 THEN [filled |-> TRUE, events |-> result.events,
                       currencies |-> result.currencies,
                       impact |-> result.impact]
                 ELSE NoPrior
    /\ pending' = db
    /\ req' = [NoReq EXCEPT !.op = "fetch_month", !.again = TRUE,
                            !.pc = "month",
                            !.skip = DatesToSkip(db, TRUE)]
    /\ calls' = <<>>
    /\ stored0' = StoredDates(db)
    /\ result' = NoResult
    /\ UNCHANGED <<db, clock, today, last, read, processes, scrape, pure>>

NextRepeat ==
    \/ StartFetchMonth(FALSE)
    \/ FetchMonthAgain
    \/ MonthSkip
    \/ MonthFetchOk
    \/ MonthFetchFail
    \/ MonthUpsert
    \/ MonthCommit
    \/ FetchMonthAfterPass
    \/ DatesFetchOk
    \/ DatesFetchFail
    \/ DatesUpsert
    \/ DatesCommit
    \/ DatesDone
    \/ FetchMonthReturn

SpecRepeat == Init /\ [][NextRepeat]_vars

(***************************************************************************)
(* The repository driven directly, as its callers' tests drive it:         *)
(* one upsert_events per transaction, then session.commit(), with time     *)
(* passing.                                                                *)
(***************************************************************************)
EventUniverse ==
    UNION {{PendingEvent(d), PublishedEvent(d), HolidayEvent(d)} : d \in Days}

\* Lists of events a caller passes: no two entries hit the same uq_event key.
Batches ==
    {b \in UNION {[1..n -> EventUniverse] : n \in 0..MaxBatch} :
        \A i, j \in DOMAIN b : i # j => ~Conflicts(b[i], b[j])}

RepoUpsert ==
    /\ req.pc = "idle"
    /\ pending = db
    /\ \E events \in Batches :
          LET r == upsert_events(pending, events, clock)
          IN /\ BagCardinality(r.rows) <= MaxRows
             /\ pending' = r.rows
             /\ last' = [NoCall EXCEPT !.call = "upsert_events",
                                       !.events = events,
                                       !.count = r.count]
    /\ UNCHANGED <<db, clock, today, req, calls, stored0, result, read, others>>

RepoCommit ==
    /\ req.pc = "idle"
    /\ pending # db
    /\ db' = pending
    /\ last' = [NoCall EXCEPT !.call = "commit"]
    /\ UNCHANGED <<pending, clock, today, req, calls, stored0, result, read, others>>

NextStore ==
    \/ RepoUpsert
    \/ RepoCommit
    \/ Tick

SpecStore == Init /\ [][NextStore]_vars

(***************************************************************************)
(* The read-only calls of the repository, on the session's view of the     *)
(* table, between the writes.                                              *)
(***************************************************************************)
\* COUNT(*) over the rows of the table that are in `matching'.
RowCount(rows, matching) ==
    BagCardinality([r \in matching \cap BagToSet(rows) |-> CopiesIn(r, rows)])

\* The month the model stores, and the month after it.
Months == {1, 2}

MonthStart(month) == (month - 1) * NumDays + 1

MonthEnd(month) == month * NumDays

has_events_for_month(rows, month) ==
    LET count == RowCount(rows, {r \in BagToSet(rows) :
                                    /\ r.date >= MonthStart(month)
                                    /\ r.date <= MonthEnd(month)})
    IN count > 0

\* A dict {key: count} is the set of its items.
get_stats(rows) ==
    LET total == BagCardinality(rows)
        by_currency ==
            {<<c, RowCount(rows, {r \in BagToSet(rows) : r.currency = c})>> :
                c \in {r.currency : r \in BagToSet(rows)}}
        by_impact ==
            {<<k, RowCount(rows, {r \in BagToSet(rows) : r.impact = k})>> :
                k \in {r.impact : r \in BagToSet(rows)}}
        dates == {r.date : r \in BagToSet(rows)}
        date_range ==
            IF dates = {} THEN <<NULL, NULL>>
            ELSE << <<CHOOSE a \in dates : \A b \in dates : a <= b>>,
                    <<CHOOSE a \in dates : \A b \in dates : a >= b>> >>
    IN [total_events |-> total, by_currency |-> by_currency,
        by_impact |-> by_impact, date_range |-> date_range]

\* The call repeats the one recorded in `read'.
Repeats(call, start_date, end_date, currencies, impact) ==
    /\ read.call = call
    /\ read.start_date = start_date
    /\ read.end_date = end_date
    /\ read.currencies = currencies
    /\ read.impact = impact

RepoGetEvents ==
    /\ req.pc = "idle"
    /\ \E start_date, end_date \in Days : \E f \in MonthFilters :
          read' = [NoRead EXCEPT
                      !.call = "get_events",
                      !.start_date = start_date, !.end_date = end_date,
                      !.currencies = f.currencies, !.impact = f.impact,
                      !.events = get_events(pending, start_date, end_date,
                                            f.currencies, f.impact),
                      !.again = Repeats("get_events", start_date, end_date,
                                        f.currencies, f.impact)]
    /\ UNCHANGED <<db, pending, clock, today, req, calls, stored0, result,
                   last, others>>

RepoNeedsUpdate ==
    /\ req.pc = "idle"
    /\ \E start_date, end_date \in Days :
          read' = [NoRead EXCEPT
                      !.call = "get_events_needing_update",
                      !.start_date = start_date, !.end_date = end_date,
                      !.dates = get_events_needing_update(pending, start_date,
                                                          end_date, today),
                      !.again = Repeats("get_events_needing_update",
                                        start_date, end_date, <<>>, "")]
    /\ UNCHANGED <<db, pending, clock, today, req, calls, stored0, result,
                   last, others>>

RepoHasEvents ==
    /\ req.pc = "idle"
    /\ \E month \in Months :
          read' = [NoRead EXCEPT
                      !.call = "has_events_for_month",
                      !.start_date = MonthStart(month),
                      !.end_date = MonthEnd(month),
                      !.has = has_events_for_month(pending, month),
                      !.again = Repeats("has_events_for_month",
                                        MonthStart(month), MonthEnd(month),
                                        <<>>, "")]
    /\ UNCHANGED <<db, pending, clock, today, req, calls, stored0, result,
                   last, others>>

\* Variant: the statistics call first purges the rows of past dates.
RepoGetStatsPurging ==
    /\ req.pc = "idle"
    /\ LET kept == [r \in {x \in BagToSet(pending) : x.date >= today}
                        |-> CopiesIn(r, pending)]
       IN /\ pending' = kept
          /\ db' = kept
          /\ read' = [NoRead EXCEPT !.call = "get_stats",
                                    !.stats = get_stats(kept),
                                    !.again = Repeats("get_stats", 1, 1, <<>>, "")]
    /\ UNCHANGED <<clock, today, req, calls, stored0, result, last, others>>

RepoGetStats ==
    /\ req.pc = "idle"
    /\ read' = [NoRead EXCEPT !.call = "get_stats",
                              !.stats = get_stats(pending),
                              !.again = Repeats("get_stats", 1, 1, <<>>, "")]
    /\ UNCHANGED <<db, pending, clock, today, req, calls, stored0, result,
                   last, others>>

\* The write between the reads: one day's page upserted and committed, as
\* the service stores a scraped day.  What was read before is out of date.
RepoStoreDay ==
    /\ req.pc = "idle"
    /\ \E d \in Days : \E page \in Pages(d) :
          LET r == upsert_events(pending, page, clock)
          IN /\ BagCardinality(r.rows) <= MaxRows
             /\ pending' = r.rows
             /\ db' = r.rows
    /\ read' = NoRead
    /\ UNCHANGED <<clock, today, req, calls, stored0, result, last, others>>

NextQuery ==
    \/ RepoStoreDay
    \/ RepoGetEvents
    \/ RepoNeedsUpdate
    \/ RepoHasEvents
    \/ RepoGetStats

SpecQuery == Init /\ [][NextQuery]_vars

(***************************************************************************)
(* The month operations of the repository, on a table that holds events    *)
(* of two months: delete_events_for_month followed by the session's        *)
(* commit, and has_events_for_month.                                       *)
(***************************************************************************)
MonthDays(month) == MonthStart(month)..MonthEnd(month)

\* Variant: the statement has no lower bound, it deletes through the end of
\* the month.
delete_events_through_month(rows, month) ==
    LET hit == {r \in BagToSet(rows) : r.date <= MonthEnd(month)}
    IN [rows |-> [r \in BagToSet(rows) \ hit |-> CopiesIn(r, rows)],
        count |-> RowCount(rows, hit)]

\* DELETE FROM economic_events WHERE date >= start_date AND date <= end_date;
\* the return value is the statement's rowcount.
delete_events_for_month(rows, month) ==
    LET hit == {r \in BagToSet(rows) :
                   /\ r.date >= MonthStart(month)
                   /\ r.date <= MonthEnd(month)}
    IN [rows |-> [r \in BagToSet(rows) \ hit |-> CopiesIn(r, rows)],
        count |-> RowCount(rows, hit)]

\* A day of either month is upserted and committed.
RepoStoreMonthDay ==
    /\ req.pc = "idle"
    /\ \E month \in Months : \E d \in MonthDays(month) : \E page \in Pages(d) :
          LET r == upsert_events(pending, page, clock)
          IN /\ BagCardinality(r.rows) <= MaxRows
             /\ pending' = r.rows
             /\ db' = r.rows
    /\ last' = NoCall
    /\ read' = NoRead
    /\ UNCHANGED <<clock, today, req, calls, stored0, result, others>>

\* count = repo.delete_events_for_month(year, month); session.commit()
RepoDeleteMonth ==
    /\ req.pc = "idle"
    /\ \E month \in Months :
          LET r == delete_events_for_month(pending, month)
          IN /\ pending' = r.rows
             /\ db' = r.rows
             /\ last' = [NoCall EXCEPT !.call = "delete_events_for_month",
                                       !.month = month,
                                       !.count = r.count]
    /\ read' = NoRead
    /\ UNCHANGED <<clock, today, req, calls, stored0, result, others>>

NextMonth ==
    \/ RepoStoreMonthDay
    \/ RepoDeleteMonth
    \/ RepoHasEvents

SpecMonth == Init /\ [][NextMonth]_vars

(***************************************************************************)
(* ForexFactoryScraper.fetch_day: _fetch_day_with_retry under              *)
(* @retry(stop=stop_after_attempt(3), wait=wait_exponential(...),          *)
(* reraise=True).                                                          *)
(***************************************************************************)
\* stop_after_attempt(3)
MaxAttempts == 3

\* What can go wrong inside one attempt, by the exception the failing step
\* raises: navigate() raises BrowserNavigationError, get_page_source() lets
\* the driver's WebDriverException through, _parse_calendar_page() raises
\* ParsingError.
AttemptFailures ==
    {"BrowserNavigationError", "WebDriverException", "ParsingError"}

\* The exception classes of blackbox.data.exceptions below ScraperError.
ScraperErrors ==
    {"ScraperError", "BrowserError", "BrowserInitializationError",
     "BrowserNavigationError", "PageLoadError", "ElementNotFoundError",
     "ParsingError", "RateLimitError", "BlockedError"}

\* Variant: the body lets every exception through as it is.
BodyRaisesUnwrapped(inner) == inner

\* The except clauses of the body: ParsingError is re-raised, everything else
\* leaves as ScraperError.
BodyRaises(inner) ==
    IF inner = "ParsingError" THEN "ParsingError" ELSE "ScraperError"

\* The decorator's decision after attempt number n raised exc.  No retry=
\* argument is given, so every Exception is retried, whatever its class, until
\* the stop condition holds.
RetryAgain(exc, n) == n < MaxAttempts

FetchDayCall ==
    /\ fetch.pc \in {"idle", "returned", "raised"}
    /\ \E d \in Days : fetch' = [NoFetch EXCEPT !.pc = "attempt", !.date = d]
    /\ UNCHANGED <<db, pending, clock, today, req, calls, stored0, result,
                   last, read, tasks, _refresh_status, sess, aside>>

AttemptReturns ==
    /\ fetch.pc = "attempt"
    /\ \E page \in Pages(fetch.date) :
          fetch' = [fetch EXCEPT !.attempts = Append(@, "ok"),
                                 !.events = page, !.pc = "returned"]
    /\ UNCHANGED <<db, pending, clock, today, req, calls, stored0, result,
                   last, read, tasks, _refresh_status, sess, aside>>

AttemptRaises ==
    /\ fetch.pc = "attempt"
    /\ \E inner \in AttemptFailures :
          LET exc == BodyRaises(inner)
              n == Len(fetch.attempts) + 1
          IN fetch' = [fetch EXCEPT !.attempts = Append(@, inner),
                                    !.error = exc,
                                    !.pc = IF RetryAgain(exc, n)
                                           THEN "attempt" ELSE "raised"]
    /\ UNCHANGED <<db, pending, clock, today, req, calls, stored0, result,
                   last, read, tasks, _refresh_status, sess, aside>>

NextScraper ==
    \/ FetchDayCall
    \/ AttemptReturns
    \/ AttemptRaises

SpecScraper == Init /\ [][NextScraper]_vars

\* Every attempt ends: the page-load timeout bounds navigate() and the wait
\* between attempts is capped.
LiveScraper == SpecScraper /\ WF_vars(AttemptReturns \/ AttemptRaises)

(***************************************************************************)
(* ForexFactoryScraper.fetch_month: one fetch_day per day of the month,    *)
(* fetch_day taken by its outcome (a page, or the exception that leaves    *)
(* _fetch_day_with_retry after the last attempt).                          *)
(***************************************************************************)
CalendarDay(d, events) == [date |-> d, events |-> events]

ScraperFetchMonth ==
    /\ scrape.pc \in {"idle", "returned", "raised"}
    /\ \E f \in MonthFilters :
          scrape' = [NoScrape EXCEPT !.pc = "loop",
                                    !.currencies = f.currencies]
    /\ UNCHANGED <<service, processes, prior, pure>>

\* fetch_day returned: the events pass the currencies filter and the day is
\* appended.
ScraperDayOk ==
    /\ scrape.pc = "loop"
    /\ scrape.day <= NumDays
    /\ \E page \in Pages(scrape.day) :
          LET events == IF scrape.currencies # <<>>
                        THEN SeqFilterCurrency(page,
                                               UpperAll(scrape.currencies))
                        ELSE page
          IN scrape' = [scrape EXCEPT
                           !.days = Append(scrape.days,
                                           CalendarDay(scrape.day, events)),
                           !.day = scrape.day + 1]
    /\ UNCHANGED <<service, processes, prior, pure>>

\* Variant: a day whose fetch raised is left out of the month.
ScraperDayFailDropped ==
    /\ scrape.pc = "loop"
    /\ scrape.day <= NumDays
    /\ scrape' = [scrape EXCEPT !.failed = scrape.failed \cup {scrape.day},
                                !.day = scrape.day + 1]
    /\ UNCHANGED <<service, processes, prior, pure>>

\* fetch_day raised: except ScraperError appends an empty day and the loop
\* goes on; any other exception leaves fetch_month.
ScraperDayFail ==
    /\ scrape.pc = "loop"
    /\ scrape.day <= NumDays
    /\ \E inner \in AttemptFailures :
          IF BodyRaises(inner) \in ScraperErrors
          THEN scrape' = [scrape EXCEPT
                             !.days = Append(scrape.days,
                                             CalendarDay(scrape.day, <<>>)),
                             !.failed = scrape.failed \cup {scrape.day},
                             !.day = scrape.day + 1]
          ELSE scrape' = [scrape EXCEPT
                             !.failed = scrape.failed \cup {scrape.day},
                             !.pc = "raised"]
    /\ UNCHANGED <<service, processes, prior, pure>>

\* return CalendarMonth(year=year, month=month, days=days)
ScraperMonthReturn ==
    /\ scrape.pc = "loop"
    /\ scrape.day > NumDays
    /\ scrape' = [scrape EXCEPT !.pc = "returned"]
    /\ UNCHANGED <<service, processes, prior, pure>>

NextScrapeMonth ==
    \/ ScraperFetchMonth
    \/ ScraperDayOk
    \/ ScraperDayFail
    \/ ScraperMonthReturn

SpecScrapeMonth == Init /\ [][NextScrapeMonth]_vars

(***************************************************************************)
(* ForexFactoryScraper._parse_calendar_page.  The markup is the list of    *)
(* its table rows; a row is its class and the get_text(strip=True) of its  *)
(* date, time, currency and event cells, "" for a cell that is absent or   *)
(* empty.  Impact and the value cells are left out.                        *)
(***************************************************************************)
MaxPageRows == 3

\* "".strip().lower() of the time texts in use.
StripLower(text) ==
    CASE text = "All Day" -> "all day"
      [] text = "Tentative" -> "tentative"
      [] OTHER -> text

\* re.match(r"(\d{1,2}):(\d{2})(am|pm)", time_str): the groups, or no match.
TimeMatch(time_str) ==
    CASE time_str = "8:30am" -> <<[hour |-> 8, minute |-> 30, period |-> "am"]>>
      [] time_str = "12:15am" -> <<[hour |-> 12, minute |-> 15, period |-> "am"]>>
      [] time_str = "2:00pm" -> <<[hour |-> 2, minute |-> 0, period |-> "pm"]>>
      [] time_str = "12:05pm" -> <<[hour |-> 12, minute |-> 5, period |-> "pm"]>>
      [] OTHER -> NULL

\* A time of day is hour * 100 + minute, as the events of Pages carry it.
_parse_time(text) ==
    LET time_str == StripLower(text)
        match == TimeMatch(time_str)
    IN IF time_str \in {"", "all day", "tentative", "day"} THEN NULL
       ELSE IF match = NULL THEN NULL
       ELSE LET hour == IF match[1].period = "pm" /\ match[1].hour # 12
                        THEN match[1].hour + 12
                        ELSE IF match[1].period = "am" /\ match[1].hour = 12
                             THEN 0
                             ELSE match[1].hour
            IN IF hour > 23 \/ match[1].minute > 59 THEN NULL
               ELSE <<hour * 100 + match[1].minute>>

\* datetime.strptime(f"{date_text} {target_date.year}", "%b %d %Y").date() as
\* a day number, or NULL for the ValueError.
ParseDateText(date_text) ==
    CASE date_text = "Jan 1" -> <<1>>
      [] date_text = "Jan 2" -> <<2>>
      [] OTHER -> NULL

\* len() of the currency texts in use.
StrLen(text) ==
    CASE text = "" -> 0
      [] text = "U" -> 1
      [] OTHER -> 3

\* Rows a page can hold: event rows with every kind of date and time cell,
\* spacer rows (no currency or no event name), a row whose currency text
\* EconomicEvent rejects, and a row of a layout the selectors do not know.
EventRows ==
    [class : {"calendar__row"},
     date : {"", "Jan 2", "SunJan 2"},
     time : {"", "8:30am", "12:15am", "All Day"},
     currency : {"USD"},
     event : {"CPI"}]

SpacerRows ==
    [class : {"calendar__row"}, date : {""}, time : {"", "2:00pm"},
     currency : {""}, event : {""}]

OtherRows ==
    { [class |-> "calendar__row", date |-> "", time |-> "12:05pm",
       currency |-> "USD", event |-> ""],
      [class |-> "calendar__row", date |-> "", time |-> "", currency |-> "U",
       event |-> "CPI"],
      [class |-> "calendar-row", date |-> "Jan 2", time |-> "8:30am",
       currency |-> "USD", event |-> "CPI"] }

Markups ==
    UNION {[1..n -> EventRows \cup SpacerRows \cup OtherRows] :
              n \in 0..MaxPageRows}

\* soup.select("tr.calendar__row"): the positions of the rows it selects.
SelectRows(html) ==
    AscendingDates({i \in DOMAIN html : html[i].class = "calendar__row"})

\* Variant: a row without a time text of its own has no time.
OwnTime(row, current_time) ==
    IF row.time # "" THEN _parse_time(row.time) ELSE NULL

\* current_time after the row's time cell.
CarriedTime(row, current_time) ==
    IF row.time # "" THEN _parse_time(row.time) ELSE current_time

\* current_date after the row's date cell.
CarriedDate(row, current_date) ==
    IF row.date # "" /\ ParseDateText(row.date) # NULL
    THEN ParseDateText(row.date)[1]
    ELSE current_date

RECURSIVE ParseRowsUnnamed(_, _, _, _, _)
\* Variant: only the currency cell decides whether a row is skipped.
ParseRowsUnnamed(html, todo, current_date, current_time, events) ==
    IF todo = <<>> THEN [kind |-> "returned", events |-> events]
    ELSE LET row == html[Head(todo)]
             d == CarriedDate(row, current_date)
             t == CarriedTime(row, current_time)
         IN IF row.currency = ""
            THEN ParseRowsUnnamed(html, Tail(todo), d, t, events)
            ELSE IF StrLen(row.currency) < 2 \/ StrLen(row.currency) > 5
            THEN [kind |-> "ParsingError", events |-> <<>>]
            ELSE ParseRowsUnnamed(html, Tail(todo), d, t,
                                  Append(events,
                                         [row |-> Head(todo), date |-> d,
                                          time |-> t,
                                          currency |-> row.currency,
                                          event_name |-> row.event]))

\* The loop over the selected rows.  An event keeps the position of its row
\* in the markup.  EconomicEvent(...) raises for a currency shorter than 2 or
\* longer than 5; the except clause turns that into ParsingError.
RECURSIVE ParseRows(_, _, _, _, _)
ParseRows(html, todo, current_date, current_time, events) ==
    IF todo = <<>> THEN [kind |-> "returned", events |-> events]
    ELSE LET row == html[Head(todo)]
             d == CarriedDate(row, current_date)
             t == CarriedTime(row, current_time)
         IN IF row.currency = "" \/ row.event = ""
            THEN ParseRows(html, Tail(todo), d, t, events)
            ELSE IF StrLen(row.currency) < 2 \/ StrLen(row.currency) > 5
            THEN [kind |-> "ParsingError", events |-> <<>>]
            ELSE ParseRows(html, Tail(todo), d, t,
                           Append(events,
                                  [row |-> Head(todo), date |-> d, time |-> t,
                                   currency |-> row.currency,
                                   event_name |-> row.event]))

_parse_calendar_page(html, target_date) ==
    ParseRows(html, SelectRows(html), target_date, NULL, <<>>)

\* One call on a page and a target date.
ParsePage ==
    /\ parse.pc = "none"
    /\ \E html \in Markups : \E target_date \in Days :
          parse' = [pc |-> "done", html |-> html, target_date |-> target_date,
                    out |-> _parse_calendar_page(html, target_date)]
    /\ UNCHANGED <<service, processes, prior, scrape, meta, score, signal, decay,
                   norm, bias, held>>

NextParse == ParsePage

SpecParse == Init /\ [][NextParse]_vars

(***************************************************************************)
(* blackbox.data.event_mapping: metadata of an event by its display name.  *)
(* A regular expression is kept by the names it finds a match in, among    *)
(* the names the calls below are made on.                                  *)
(***************************************************************************)
EventMetadata(event_type, direction, weight) ==
    [event_type |-> event_type, direction |-> direction, weight |-> weight]

EventPattern(pattern, metadata, priority) ==
    [pattern |-> pattern, metadata |-> metadata, priority |-> priority]

\* Entries of the list literal.
EVENT_PATTERNS ==
    {EventPattern("core_cpi", EventMetadata("inflation", 1, 10), 85),
     EventPattern("cpi", EventMetadata("inflation", 1, 9), 85),
     EventPattern("pmi", EventMetadata("pmi", 1, 6), 75),
     EventPattern("import_export_prices", EventMetadata("trade", 1, 3), 60),
     EventPattern("bank_holiday", EventMetadata("other", 1, 1), 10)}

\* The orders the entries of the list literal can be written in.
DeclaredOrders ==
    {o \in [1..Cardinality(EVENT_PATTERNS) -> EVENT_PATTERNS] :
        \A i, j \in DOMAIN o : i # j => o[i] # o[j]}

EXACT_EVENT_MAPPING ==
    [n \in {"cpi m/m", "manufacturing pmi", "import prices m/m"} |->
        CASE n = "cpi m/m" -> EventMetadata("inflation", 1, 10)
          [] n = "manufacturing pmi" -> EventMetadata("pmi", 1, 7)
          [] n = "import prices m/m" -> EventMetadata("trade", -1, 3)]

EventNames ==
    {"Manufacturing PMI", "Spanish Manufacturing PMI", "Import Prices m/m",
     "Import Prices q/q", "  cpi m/m ", "Core CPI Flash", "CPI Bank Holiday",
     "Bank Holiday", "Unknown Thing"}

\* pattern.search(event_name), case ignored.
Search(pattern, event_name) ==
    <<pattern, event_name>> \in
        {<<"pmi", "Manufacturing PMI">>,
         <<"pmi", "Spanish Manufacturing PMI">>,
         <<"import_export_prices", "Import Prices m/m">>,
         <<"import_export_prices", "Import Prices q/q">>,
         <<"cpi", "  cpi m/m ">>,
         <<"core_cpi", "Core CPI Flash">>,
         <<"cpi", "Core CPI Flash">>,
         <<"cpi", "CPI Bank Holiday">>,
         <<"bank_holiday", "CPI Bank Holiday">>,
         <<"bank_holiday", "Bank Holiday">>}

\* event_name.strip().lower()
_normalize_event_name(event_name) ==
    CASE event_name = "Manufacturing PMI" -> "manufacturing pmi"
      [] event_name = "Spanish Manufacturing PMI" -> "spanish manufacturing pmi"
      [] event_name = "Import Prices m/m" -> "import prices m/m"
      [] event_name = "Import Prices q/q" -> "import prices q/q"
      [] event_name = "  cpi m/m " -> "cpi m/m"
      [] event_name = "Core CPI Flash" -> "core cpi flash"
      [] event_name = "CPI Bank Holiday" -> "cpi bank holiday"
      [] event_name = "Bank Holiday" -> "bank holiday"
      [] event_name = "Unknown Thing" -> "unknown thing"
      [] OTHER -> event_name

\* The list left in the order it was written in.
AsDeclared(patterns) == patterns

RECURSIVE SortInto(_, _)
\* list.sort is stable: an entry goes after the entries of the same key that
\* were before it.
SortInto(sorted, patterns) ==
    IF patterns = <<>> THEN sorted
    ELSE LET p == Head(patterns)
             k == Cardinality({i \in DOMAIN sorted :
                                  sorted[i].priority >= p.priority})
         IN SortInto(SubSeq(sorted, 1, k) \o <<p>>
                        \o SubSeq(sorted, k + 1, Len(sorted)),
                     Tail(patterns))

\* EVENT_PATTERNS.sort(key=lambda p: p.priority, reverse=True)
SortByPriority(patterns) == SortInto(<<>>, patterns)

\* The metadata of the first pattern of the list that is found in the name
\* as given, or NULL.
_match_pattern(patterns, event_name) ==
    LET found == {i \in DOMAIN patterns :
                     Search(patterns[i].pattern, event_name)}
    IN IF found = {} THEN NULL
       ELSE <<patterns[CHOOSE i \in found : \A j \in found : i <= j].metadata>>

\* patterns is the list literal; the module sorts it when it is loaded.
get_event_metadata(patterns, event_name) ==
    LET normalized == _normalize_event_name(event_name)
    IN IF normalized \in DOMAIN EXACT_EVENT_MAPPING
       THEN EXACT_EVENT_MAPPING[normalized]
       ELSE LET pattern_match ==
                    _match_pattern(SortByPriority(patterns), event_name)
            IN IF pattern_match # NULL THEN pattern_match[1]
               ELSE EventMetadata("other", 1, 1)

\* One call on a name, the list literal written in some order.
Classify ==
    /\ meta.pc = "none"
    /\ \E patterns \in DeclaredOrders : \E event_name \in EventNames :
          meta' = [pc |-> "done", patterns |-> patterns,
                   event_name |-> event_name,
                   out |-> get_event_metadata(patterns, event_name)]
    /\ UNCHANGED <<service, processes, prior, scrape, parse, score, signal,
                   decay, norm, bias, held>>

NextClassify == Classify

SpecClassify == Init /\ [][NextClassify]_vars

(***************************************************************************)
(* blackbox.data.scoring.calculate_surprise called on values of a small    *)
(* range.                                                                  *)
(***************************************************************************)
MaxValue == 3

Values == (0 - MaxValue)..MaxValue

OptionalValues == {NULL} \cup {<<v>> : v \in Values}

\* One call.
Surprise ==
    /\ score.pc = "none"
    /\ \E actual \in OptionalValues : \E forecast \in OptionalValues :
       \E direction \in {1, -1} :
          score' = [pc |-> "done", actual |-> actual, forecast |-> forecast,
                    direction |-> direction,
                    out |-> calculate_surprise(actual, forecast, direction)]
    /\ UNCHANGED <<service, processes, prior, scrape, parse, meta, signal,
                   decay, norm, bias, held>>

NextSurprise == Surprise

SpecSurprise == Init /\ [][NextSurprise]_vars

(***************************************************************************)
(* blackbox.core.scoring: ScoringConfig and the calculator's functions.    *)
(***************************************************************************)
\* ScoringConfig.__post_init__ rejects a negative min_bias_threshold.
Thresholds == {t \in Values : t >= 0}

\* A bias is the difference of two scores.
Biases == (0 - 2 * MaxValue)..(2 * MaxValue)

\* Variant: a bias on the threshold is directional.
get_bias_signal_inclusive(b, threshold) ==
    IF b >= threshold THEN "BULLISH"
    ELSE IF b <= 0 - threshold THEN "BEARISH"
    ELSE "NEUTRAL"

get_bias_signal(b, threshold) ==
    IF b > threshold THEN "BULLISH"
    ELSE IF b < 0 - threshold THEN "BEARISH"
    ELSE "NEUTRAL"

\* One call.
BiasSignal ==
    /\ signal.pc = "none"
    /\ \E b \in Biases : \E threshold \in Thresholds :
          signal' = [pc |-> "done", bias |-> b, threshold |-> threshold,
                     out |-> get_bias_signal(b, threshold)]
    /\ UNCHANGED <<service, processes, prior, scrape, parse, meta, score,
                   decay, norm, bias, held>>

NextSignal == BiasSignal

SpecSignal == Init /\ [][NextSignal]_vars

(***************************************************************************)
(* calculate_decay.  A datetime is a number of minutes.  The result is a   *)
(* double: 0.5 ** x is kept as its exponent x = num / den, and is 0.0 from *)
(* the exponent on at which the power underflows.                          *)
(***************************************************************************)
\* 0.5 ** 1075 is the first power of one half that a double rounds to 0.0.
FloatUnderflow == 1075

\* The literal 1.0.
One == [zero |-> FALSE, num |-> 0, den |-> 1]

\* 0.5 ** (num / den), den > 0; 0.5 ** 0.0 is 1.0.
Power(num, den) ==
    IF num = 0 THEN One
    ELSE [zero |-> num >= FloatUnderflow * den, num |-> num, den |-> den]

\* Variant: the power is taken for events after the reference time too.
calculate_decay_unclamped(event_time, reference_time, half_life_hours) ==
    IF half_life_hours <= 0 THEN [kind |-> "ValueError"]
    ELSE [kind |-> "ok",
          value |-> Power(reference_time - event_time, 60 * half_life_hours)]

\* hours_elapsed / half_life_hours is elapsed minutes / (60 * half_life_hours).
calculate_decay(event_time, reference_time, half_life_hours) ==
    IF half_life_hours <= 0 THEN [kind |-> "ValueError"]
    ELSE LET elapsed == reference_time - event_time
         IN IF elapsed < 0 THEN [kind |-> "ok", value |-> One]
            ELSE [kind |-> "ok",
                  value |-> Power(elapsed, 60 * half_life_hours)]

\* Datetimes a few hours apart, and datetimes as far from them as the
\* power needs to underflow.
Instants ==
    {60 * h : h \in 0..MaxValue}
        \cup {60 * (FloatUnderflow - 1 + h) : h \in 0..MaxValue}

HalfLives == (0 - 1)..MaxValue

\* One call.
Decay ==
    /\ decay.pc = "none"
    /\ \E event_time \in Instants : \E reference_time \in Instants :
       \E half_life_hours \in HalfLives :
          decay' = [pc |-> "done", event_time |-> event_time,
                    reference_time |-> reference_time,
                    half_life_hours |-> half_life_hours,
                    out |-> calculate_decay(event_time, reference_time,
                                            half_life_hours)]
    /\ UNCHANGED <<service, processes, prior, scrape, parse, meta, score,
                   signal, norm, bias, held>>

NextDecay == Decay

SpecDecay == Init /\ [][NextDecay]_vars

(***************************************************************************)
(* blackbox.core.scoring.service.ScoringService over the repository, and   *)
(* the calculator functions it calls.  A score is an exact fraction; a     *)
(* reference time is a date and a time of day.                             *)
(***************************************************************************)
Frac(num, den) == [num |-> num, den |-> den]

FracAdd(a, b) == Frac(a.num * b.den + b.num * a.den, a.den * b.den)

RECURSIVE TwoTo(_)
TwoTo(k) == IF k = 0 THEN 1 ELSE 2 * TwoTo(k - 1)

\* The decay factor as a fraction.  The model's datetimes are whole
\* half-lives apart; for others the power has no fraction and the
\* evaluation stops.
DecayFraction(v) ==
    IF v.zero THEN Frac(0, 1)
    ELSE IF v.num % v.den = 0 THEN Frac(1, TwoTo(v.num \div v.den))
    ELSE CHOOSE f \in {} : TRUE

\* EconomicEvent.surprise: the surprise derived from the event's values.
surprise(event) ==
    calculate_surprise(event.actual, event.forecast, event.direction)

\* surprise * weight * decay
calculate_event_force(s, weight, d) ==
    Frac(s.num * weight * d.num, s.den * d.den)

\* datetime.combine(event.date, event.time or 00:00), in minutes.
Minutes(d, t) ==
    d * 1440 + (IF t = NULL THEN 0 ELSE (t[1] \div 100) * 60 + (t[1] % 100))

event_to_datetime(event) == Minutes(event.date, event.time)

RECURSIVE ScoreFrom(_, _, _, _, _)
\* The loop of calculate_currency_score from total_score on.
ScoreFrom(total_score, events, currency_upper, reference_time, config) ==
    IF events = <<>> THEN total_score
    ELSE LET event == Head(events)
             rest == Tail(events)
         IN IF Upper(event.currency) # currency_upper
            THEN ScoreFrom(total_score, rest, currency_upper, reference_time,
                           config)
            ELSE IF surprise(event) = NULL
            THEN ScoreFrom(total_score, rest, currency_upper, reference_time,
                           config)
            ELSE LET event_dt == event_to_datetime(event)
                     d == calculate_decay(event_dt, reference_time,
                                          config.half_life_hours)
                     force == calculate_event_force(surprise(event)[1],
                                                    event.weight,
                                                    DecayFraction(d.value))
                 IN ScoreFrom(FracAdd(total_score, force), rest,
                              currency_upper, reference_time, config)

calculate_currency_score(events, currency, reference_time, config) ==
    ScoreFrom(Frac(0, 1), events, Upper(currency), reference_time, config)

\* Variant: the difference taken the other way round.
calculate_pair_bias_reversed(base_score, quote_score) ==
    Frac(quote_score.num * base_score.den - base_score.num * quote_score.den,
         quote_score.den * base_score.den)

calculate_pair_bias(base_score, quote_score) ==
    Frac(base_score.num * quote_score.den - quote_score.num * base_score.den,
         base_score.den * quote_score.den)

\* Variant: the window ends on the last stored date, whatever the reference.
get_currency_score_unbounded(rows, config, currency, at_time) ==
    LET start_date == at_time.date - config.lookback_days
        events == get_events(rows, start_date, 2 * NumDays + 1,
                             <<currency>>, "")
    IN calculate_currency_score(events, currency,
                                Minutes(at_time.date, at_time.time), config)

get_currency_score(rows, config, currency, at_time) ==
    LET end_date == at_time.date
        start_date == end_date - config.lookback_days
        events == get_events(rows, start_date, end_date, <<currency>>, "")
    IN calculate_currency_score(events, currency,
                                Minutes(at_time.date, at_time.time), config)

get_pair_bias(rows, config, base, quote, at_time) ==
    LET base_score == get_currency_score(rows, config, base, at_time)
        quote_score == get_currency_score(rows, config, quote, at_time)
    IN calculate_pair_bias(base_score, quote_score)

\* bias > threshold for the fraction num / den, den > 0, is
\* num > threshold * den.
ServiceBiasSignal(rows, config, base, quote, at_time) ==
    LET b == get_pair_bias(rows, config, base, quote, at_time)
    IN get_bias_signal(b.num, config.min_bias_threshold * b.den)

\* The service's configuration: a half-life of one day.
Config ==
    [half_life_hours |-> 24, lookback_days |-> 1, min_bias_threshold |-> 1]

\* An event of the other currency with a published value below its forecast.
ScoredEvent(d) ==
    [date |-> d, time |-> <<830>>, currency |-> "EUR", impact |-> "high",
     event_name |-> "ECB Rate Decision", actual |-> <<1>>,
     forecast |-> <<2>>, previous |-> <<2>>, event_type |-> "interest_rate",
     direction |-> 1, weight |-> 2]

\* Currencies a caller names.
Named == {"USD", "usd", "EUR"}

\* Reference times: the events' time of day on a stored date or on the next
\* one, and midnight of the first date.
AtTimes ==
    {[date |-> d, time |-> <<830>>] : d \in 1..(NumDays + 1)}
        \cup {[date |-> 1, time |-> NULL]}

\* What the scoring calls leave alone beside the service's state.
unscored ==
    <<clock, today, req, calls, stored0, result, last, read, processes,
      prior, scrape, parse, meta, score, signal, decay, norm, held>>

\* repository.upsert_events(events); session.commit(), before the one
\* scoring call the model follows.
RepoStoreScored ==
    /\ req.pc = "idle"
    /\ bias.call = "none"
    /\ \E d \in Days : \E events \in Pages(d) \cup {<<ScoredEvent(d)>>} :
          LET r == upsert_events(pending, events, clock)
          IN /\ BagCardinality(r.rows) <= MaxRows
             /\ pending' = r.rows
             /\ db' = r.rows
    /\ UNCHANGED <<bias, unscored>>

GetCurrencyScore ==
    /\ req.pc = "idle"
    /\ bias.call = "none"
    /\ \E currency \in Named : \E at_time \in AtTimes :
          bias' = [call |-> "get_currency_score", base |-> currency,
                   quote |-> "", at_time |-> at_time,
                   out |-> [kind |-> "score",
                            value |-> get_currency_score(pending, Config,
                                                         currency, at_time)]]
    /\ UNCHANGED <<db, pending, unscored>>

GetPairBias ==
    /\ req.pc = "idle"
    /\ bias.call = "none"
    /\ \E base \in Named : \E quote \in Named : \E at_time \in AtTimes :
          bias' = [call |-> "get_pair_bias", base |-> base, quote |-> quote,
                   at_time |-> at_time,
                   out |-> [kind |-> "bias",
                            value |-> get_pair_bias(pending, Config, base,
                                                    quote, at_time)]]
    /\ UNCHANGED <<db, pending, unscored>>

GetBiasSignal ==
    /\ req.pc = "idle"
    /\ bias.call = "none"
    /\ \E base \in Named : \E quote \in Named : \E at_time \in AtTimes :
          bias' = [call |-> "get_bias_signal", base |-> base, quote |-> quote,
                   at_time |-> at_time,
                   out |-> [kind |-> "signal",
                            value |-> ServiceBiasSignal(pending, Config, base,
                                                        quote, at_time)]]
    /\ UNCHANGED <<db, pending, unscored>>

NextScore ==
    \/ RepoStoreScored
    \/ GetCurrencyScore
    \/ GetPairBias
    \/ GetBiasSignal

SpecScore == Init /\ [][NextScore]_vars

(***************************************************************************)
(* blackbox.data.normalizer.normalize_value.  A string is a sequence of    *)
(* characters; the float it yields is kept as mant * 10 ^ scale.           *)
(***************************************************************************)
MaxLen == 4

Digits == {"1", "5"}

Alphabet == {" ", "<", "-", "+", ",", ".", "K", "m", "%", "x"} \cup Digits

DigitValue(c) == IF c = "1" THEN 1 ELSE 5

\* str.lower() on one character.
LowerChar(c) == IF c = "K" THEN "k" ELSE c

\* UNIT_MULTIPLIERS, by the power of ten.
UnitPower(u) ==
    CASE u = "k" -> 3
      [] u = "m" -> 6
      [] u = "b" -> 9
      [] u = "t" -> 12

RECURSIVE Lead(_, _)
\* How many characters at the start of s are in C.
Lead(s, C) ==
    IF s = <<>> \/ Head(s) \notin C THEN 0 ELSE 1 + Lead(Tail(s), C)

Drop(s, n) == SubSeq(s, n + 1, Len(s))

Reverse(s) == [i \in 1..Len(s) |-> s[Len(s) + 1 - i]]

\* str.strip()
Strip(s) ==
    LET front == Drop(s, Lead(s, {" "}))
    IN SubSeq(front, 1, Len(front) - Lead(Reverse(front), {" "}))

\* s without its leading characters of C.
Skip(s, C) == Drop(s, Lead(s, C))

\* 1 when s starts with a character of C, else 0: an optional group.
Optional(s, C) == IF s # <<>> /\ Head(s) \in C THEN 1 ELSE 0

\* The length of ([\d,]+\.?\d*) at the start of s, 0 when it finds nothing.
NumberLen(s) ==
    LET n1 == Lead(s, Digits \cup {","})
        ndot == Optional(Drop(s, n1), {"."})
    IN IF n1 = 0 THEN 0
       ELSE n1 + ndot + Lead(Drop(s, n1 + ndot), Digits)

\* \s*([kmbt%]?)\s* on what follows the number.
UnitGroups(sign, number_str, s) ==
    LET s6 == Skip(s, {" "})
        nunit == Optional([i \in DOMAIN s6 |-> LowerChar(s6[i])],
                          {"k", "m", "b", "t", "%"})
    IN <<[sign |-> sign, number_str |-> number_str,
          unit |-> SubSeq(s6, 1, nunit),
          rest |-> Skip(Drop(s6, nunit), {" "})]>>

\* ([\d,]+\.?\d*) and the rest of the pattern on what follows the sign.
NumberGroups(sign, s) ==
    IF NumberLen(s) = 0 THEN NULL
    ELSE UnitGroups(sign, SubSeq(s, 1, NumberLen(s)), Drop(s, NumberLen(s)))

\* ([+-]?) and the rest of the pattern on what follows the comparison.
SignGroups(s) ==
    NumberGroups(SubSeq(s, 1, Optional(s, {"+", "-"})),
                 Drop(s, Optional(s, {"+", "-"})))

\* The groups of VALUE_PATTERN on s and what follows the last group, or NULL
\* when the number group finds nothing.  Each group takes all it can, and
\* no shorter choice lets a later one succeed.
Groups(s) ==
    SignGroups(Drop(Skip(s, {" "}), Optional(Skip(s, {" "}), {"<", ">"})))

\* Variant: the pattern without its closing anchor.
MatchPrefix(s) == Groups(s)

\* VALUE_PATTERN.match(s): the groups when the pattern reaches the end of s.
Match(s) ==
    LET g == Groups(s)
    IN IF g # NULL /\ g[1].rest = <<>> THEN g ELSE NULL

RECURSIVE Mantissa(_, _)
\* The number the digits of s spell after acc, the other characters left out.
Mantissa(acc, s) ==
    IF s = <<>> THEN acc
    ELSE IF Head(s) \in Digits
         THEN Mantissa(10 * acc + DigitValue(Head(s)), Tail(s))
         ELSE Mantissa(acc, Tail(s))

\* float(number_str) once the commas are removed: NULL where float raises
\* ValueError, which is when no digit is left.
Float(number_str) ==
    LET text == SelectSeq(number_str, LAMBDA c : c # ",")
        dot == Lead(text, Digits)
        decimals == IF dot < Len(text) THEN Len(text) - dot - 1 ELSE 0
    IN IF \A i \in DOMAIN text : text[i] \notin Digits THEN NULL
       ELSE <<[mant |-> Mantissa(0, text), scale |-> 0 - decimals]>>

normalize_value(raw_value) ==
    IF raw_value = NULL THEN NULL
    ELSE LET cleaned == Strip(raw_value[1])
         IN IF cleaned = <<>> THEN NULL
            ELSE LET match == Match(cleaned)
                 IN IF match = NULL THEN NULL
                    ELSE LET value == Float(match[1].number_str)
                             signed == IF match[1].sign = <<"-">>
                                       THEN [value[1] EXCEPT !.mant = 0 - @]
                                       ELSE value[1]
                             unit_lower == IF match[1].unit = <<>> THEN ""
                                           ELSE LowerChar(match[1].unit[1])
                         IN IF value = NULL THEN NULL
                            ELSE IF unit_lower = "%"
                            THEN <<[signed EXCEPT !.scale = @ - 2]>>
                            ELSE IF unit_lower \in {"k", "m", "b", "t"}
                            THEN <<[signed EXCEPT
                                       !.scale = @ + UnitPower(unit_lower)]>>
                            ELSE <<signed>>

\* The strings of at most n characters.
Strings(n) == UNION {[1..k -> Alphabet] : k \in 0..n}

\* One call.
Normalize ==
    /\ norm.pc = "none"
    /\ \E raw_value \in {NULL} \cup {<<s>> : s \in Strings(MaxLen)} :
          norm' = [pc |-> "done", value |-> raw_value,
                   out |-> normalize_value(raw_value)]
    /\ UNCHANGED <<service, processes, prior, scrape, parse, meta, score,
                   signal, decay, bias, held>>

NextNormalize == Normalize

SpecNormalize == Init /\ [][NextNormalize]_vars

(***************************************************************************)
(* The browser and the store session of one CalendarService call.  The     *)
(* call takes its session from get_session, every scraping pass runs in a  *)
(* 'with ForexFactoryScraper' block, and each statement that can raise     *)
(* does so here by choice.                                                 *)
(***************************************************************************)
ServiceCalls ==
    { [op |-> "fetch_month", skip_existing |-> TRUE],
      [op |-> "fetch_month", skip_existing |-> FALSE],
      [op |-> "fetch_today", skip_existing |-> FALSE],
      [op |-> "refresh_month", skip_existing |-> FALSE] }

\* How the statements of one day can end: fetch_day raises before or after
\* the driver was started, upsert_events raises, commit raises, or the day
\* is committed.
DayOutcomes ==
    {"no_browser", "fetch_failed", "upsert_failed", "commit_failed", "stored"}

\* The browser and the session's uncommitted changes after one day.
AfterDay(h, outcome) ==
    [h EXCEPT !.browser = h.browser \/ outcome # "no_browser",
              !.dirty = CASE outcome = "stored" -> FALSE
                          [] outcome = "commit_failed" -> TRUE
                          [] OTHER -> h.dirty]

\* session = session_factory(); try: yield session
HeldCall ==
    /\ held.pc = "idle"
    /\ \E c \in ServiceCalls :
          held' = [NoHeld EXCEPT !.op = c.op,
                                 !.skip_existing = c.skip_existing,
                                 !.session = "open", !.pc = "body"]
    /\ UNCHANGED <<service, processes, prior, scrape, parse, meta, score,
                   signal, decay, norm, bias>>

\* The first statement of the body: fetch_today asks the store for today's
\* events, a month pass that skips stored days asks for the month's.
HeldFirstQuery ==
    /\ held.pc = "body"
    /\ \/ /\ held.op = "fetch_today"
          /\ \E outcome \in {"raises", "cached", "empty"} :
                held' = [held EXCEPT
                            !.raising = outcome = "raises",
                            !.pc = CASE outcome = "raises" -> "except"
                                     [] outcome = "cached" -> "commit"
                                     [] outcome = "empty" -> "day"]
       \/ /\ held.op # "fetch_today"
          /\ \E raises \in {FALSE, held.skip_existing} :
                held' = [held EXCEPT
                            !.raising = raises,
                            !.pc = IF raises THEN "except" ELSE "month"]
    /\ UNCHANGED <<service, processes, prior, scrape, parse, meta, score,
                   signal, decay, norm, bias>>

\* One day of _scrape_and_store_month: skipped, or scraped and stored inside
\* a try whose except clause logs and goes on.
HeldMonthDay ==
    /\ held.pc = "month"
    /\ held.day <= NumDays
    /\ \/ /\ held.skip_existing
          /\ held' = [held EXCEPT !.day = held.day + 1]
       \/ \E outcome \in DayOutcomes :
             held' = [AfterDay(held, outcome) EXCEPT
                         !.day = held.day + 1,
                         !.swallowed = held.swallowed \/ outcome # "stored"]
    /\ UNCHANGED <<service, processes, prior, scrape, parse, meta, score,
                   signal, decay, norm, bias>>

\* One date of _scrape_and_store_dates, or the day of _scrape_and_store_day:
\* nothing catches what a statement raises.
HeldDay ==
    /\ held.pc \in {"dates", "day"}
    /\ ~held.raising
    /\ held.pc = "dates" => held.todo > 0
    /\ \E outcome \in DayOutcomes :
          held' = [AfterDay(held, outcome) EXCEPT
                      !.raising = outcome # "stored",
                      !.todo = IF held.pc = "dates" THEN held.todo - 1 ELSE 0,
                      !.pc = IF held.pc = "day" THEN "day_end" ELSE "dates"]
    /\ UNCHANGED <<service, processes, prior, scrape, parse, meta, score,
                   signal, decay, norm, bias>>

\* Variant: close() is a statement at the end of the block, which an
\* exception passes by.
ScraperExitAtEnd ==
    /\ \/ held.pc = "month" /\ held.day > NumDays
       \/ held.pc = "dates" /\ (held.todo = 0 \/ held.raising)
       \/ held.pc = "day_end"
    /\ held' = [held EXCEPT
                   !.browser = held.browser /\ held.raising,
                   !.pc = IF held.raising THEN "except"
                          ELSE IF held.op = "fetch_month"
                          THEN IF held.pc = "month" /\ held.skip_existing
                               THEN "needs_update"
                               ELSE "return_query"
                          ELSE "commit"]
    /\ UNCHANGED <<service, processes, prior, scrape, parse, meta, score,
                   signal, decay, norm, bias>>

\* BaseScraper.__exit__ at the end of a 'with ForexFactoryScraper' block,
\* left normally or by an exception: close().
ScraperExit ==
    /\ \/ held.pc = "month" /\ held.day > NumDays
       \/ held.pc = "dates" /\ (held.todo = 0 \/ held.raising)
       \/ held.pc = "day_end"
    /\ held' = [held EXCEPT
                   !.browser = FALSE,
                   !.pc = IF held.raising THEN "except"
                          ELSE IF held.op = "fetch_month"
                          THEN IF held.pc = "month" /\ held.skip_existing
                               THEN "needs_update"
                               ELSE "return_query"
                          ELSE "commit"]
    /\ UNCHANGED <<service, processes, prior, scrape, parse, meta, score,
                   signal, decay, norm, bias>>

\* dates_to_update = repo.get_events_needing_update(start_date, end_date)
HeldNeedsUpdate ==
    /\ held.pc = "needs_update"
    /\ \/ held' = [held EXCEPT !.raising = TRUE, !.pc = "except"]
       \/ \E n \in 0..NumDays :
             held' = [held EXCEPT
                         !.todo = n,
                         !.pc = IF n = 0 THEN "return_query" ELSE "dates"]
    /\ UNCHANGED <<service, processes, prior, scrape, parse, meta, score,
                   signal, decay, norm, bias>>

\* return repo.get_events(start_date, end_date, currencies, impact)
HeldReturnQuery ==
    /\ held.pc = "return_query"
    /\ \E raises \in BOOLEAN :
          held' = [held EXCEPT !.raising = raises,
                               !.pc = IF raises THEN "except" ELSE "commit"]
    /\ UNCHANGED <<service, processes, prior, scrape, parse, meta, score,
                   signal, decay, norm, bias>>

\* get_session after the yield: session.commit()
SessionCommit ==
    /\ held.pc = "commit"
    /\ \E raises \in BOOLEAN :
          held' = [held EXCEPT
                      !.raising = raises,
                      !.dirty = held.dirty /\ raises,
                      !.pc = IF raises THEN "except" ELSE "finally"]
    /\ UNCHANGED <<service, processes, prior, scrape, parse, meta, score,
                   signal, decay, norm, bias>>

\* except Exception: session.rollback(); raise.  A rollback that raises
\* leaves the changes to close().
SessionExcept ==
    /\ held.pc = "except"
    /\ \E rolled_back \in BOOLEAN :
          held' = [held EXCEPT
                      !.dirty = held.dirty /\ ~rolled_back,
                      !.lost = held.dirty /\ rolled_back,
                      !.pc = "finally"]
    /\ UNCHANGED <<service, processes, prior, scrape, parse, meta, score,
                   signal, decay, norm, bias>>

\* finally: session.close(), which ends the transaction in progress without
\* committing it.
SessionFinally ==
    /\ held.pc = "finally"
    /\ held' = [held EXCEPT
                   !.session = "closed",
                   !.lost = held.lost \/ held.dirty,
                   !.dirty = FALSE,
                   !.pc = "ended",
                   !.exit = IF held.raising THEN "raised" ELSE "returned"]
    /\ UNCHANGED <<service, processes, prior, scrape, parse, meta, score,
                   signal, decay, norm, bias>>

NextHeld ==
    \/ HeldCall
    \/ HeldFirstQuery
    \/ HeldMonthDay
    \/ HeldDay
    \/ ScraperExit
    \/ HeldNeedsUpdate
    \/ HeldReturnQuery
    \/ SessionCommit
    \/ SessionExcept
    \/ SessionFinally

SpecHeld == Init /\ [][NextHeld]_vars

(***************************************************************************)
(* blackbox.api.main: POST /api/v1/calendar/refresh queues                 *)
(* _do_calendar_refresh as a background task, which the server runs in a   *)
(* worker thread after the response; it writes the module's global         *)
(* _refresh_status.  refresh_month is taken by its outcome: the count it   *)
(* returns or an exception.                                                *)
(***************************************************************************)
\* GET /api/v1/calendar/month around the outcome of fetch_month: the events
\* it returned go out with status 200, a ScraperError becomes 503 and any
\* other exception 500.
get_calendar_month(outcome) ==
    IF outcome.kind = "ok"
    THEN [status_code |-> 200, total_events |-> Len(outcome.events)]
    ELSE IF outcome.error \in ScraperErrors
         THEN [status_code |-> 503, total_events |-> 0]
         ELSE [status_code |-> 500, total_events |-> 0]

Running == {t \in TaskIds : tasks[t].pc = "running"}

\* refresh_calendar: background_tasks.add_task(_do_calendar_refresh, ...)
RefreshCalendar ==
    /\ \E t \in TaskIds :
          /\ tasks[t].pc = "none"
          /\ tasks' = [tasks EXCEPT ![t].pc = "queued"]
    /\ UNCHANGED <<db, pending, clock, today, req, calls, stored0, result,
                   last, read, fetch, _refresh_status, sess, aside>>

\* Variant: the task starts without writing the status.
TaskStartSilent ==
    /\ \E t \in TaskIds :
          /\ tasks[t].pc = "queued"
          /\ tasks' = [u \in TaskIds |->
                          IF u = t
                          THEN [pc |-> "running", alone |-> Running = {}]
                          ELSE [tasks[u] EXCEPT !.alone = FALSE]]
    /\ UNCHANGED <<db, pending, clock, today, req, calls, stored0, result,
                   last, read, fetch, _refresh_status, sess, aside>>

\* _do_calendar_refresh, first statement
TaskStart ==
    /\ \E t \in TaskIds :
          /\ tasks[t].pc = "queued"
          /\ tasks' = [u \in TaskIds |->
                          IF u = t
                          THEN [pc |-> "running", alone |-> Running = {}]
                          ELSE [tasks[u] EXCEPT !.alone = FALSE]]
    /\ _refresh_status' =
          [status |-> "running", message |-> [text |-> "Refreshing", count |-> 0]]
    /\ UNCHANGED <<db, pending, clock, today, req, calls, stored0, result,
                   last, read, fetch, sess, aside>>

\* Variant: the task ends without writing the status.
TaskCompletedSilent ==
    /\ \E t \in TaskIds :
          /\ tasks[t].pc = "running"
          /\ tasks' = [tasks EXCEPT ![t].pc = "returned"]
    /\ UNCHANGED <<db, pending, clock, today, req, calls, stored0, result,
                   last, read, fetch, _refresh_status, sess, aside>>

\* refresh_month returned count
TaskCompleted ==
    /\ \E t \in TaskIds : \E count \in 0..MaxRows :
          /\ tasks[t].pc = "running"
          /\ tasks' = [tasks EXCEPT ![t].pc = "returned"]
          /\ _refresh_status' =
                [status |-> "completed",
                 message |-> [text |-> "Successfully refreshed", count |-> count]]
    /\ UNCHANGED <<db, pending, clock, today, req, calls, stored0, result,
                   last, read, fetch, sess, aside>>

\* CalendarService() or refresh_month raised: except Exception
TaskError ==
    /\ \E t \in TaskIds :
          /\ tasks[t].pc = "running"
          /\ tasks' = [tasks EXCEPT ![t].pc = "raised"]
          /\ _refresh_status' =
                [status |-> "error", message |-> [text |-> "str(e)", count |-> 0]]
    /\ UNCHANGED <<db, pending, clock, today, req, calls, stored0, result,
                   last, read, fetch, sess, aside>>

NextApi ==
    \/ RefreshCalendar
    \/ TaskStart
    \/ TaskCompleted
    \/ TaskError

SpecApi == Init /\ [][NextApi]_vars

(***************************************************************************)
(* Two sync requests at once, each storing a scraped day through its own   *)
(* session: upsert_events, then session.commit() (or a rollback when the   *)
(* request fails).  The database runs the two transactions at READ         *)
(* COMMITTED: an INSERT ... ON CONFLICT DO UPDATE that meets a row of      *)
(* uq_event another open transaction has inserted or updated waits for     *)
(* that transaction to end and then works on what it left.                 *)
(***************************************************************************)
SameKeys(a, b) ==
    \E i \in DOMAIN a : \E j \in DOMAIN b :
        /\ a[i].date = b[j].date
        /\ a[i].time = b[j].time
        /\ a[i].currency = b[j].currency
        /\ a[i].event_name = b[j].event_name

\* Some other open transaction holds a row of uq_event that `events' hits.
Blocked(s, events) ==
    \E u \in Sessions \ {s} :
        /\ sess[u].pc = "open"
        /\ \E i \in DOMAIN sess[u].events : \E j \in DOMAIN events :
              Conflicts(sess[u].events[i], events[j])

\* repo.upsert_events(events): the statement is issued
TxUpsert(s) ==
    /\ sess[s].pc = "idle"
    /\ \E d \in Days : \E page \in Pages(d) :
          /\ page # <<>>
          /\ LET beside == {u \in Sessions \ {s} :
                               /\ sess[u].pc # "idle"
                               /\ SameKeys(sess[u].events, page)}
             IN sess' = [u \in Sessions |->
                           IF u = s
                           THEN [pc |-> IF Blocked(s, page) THEN "waiting"
                                        ELSE "open",
                                 events |-> page, now |-> clock,
                                 raced |-> beside # {}]
                           ELSE IF u \in beside
                                THEN [sess[u] EXCEPT !.raced = TRUE]
                                ELSE sess[u]]
    /\ UNCHANGED <<db, pending, clock, today, req, calls, stored0, result,
                   last, read, fetch, tasks, _refresh_status, aside>>

\* The transaction the statement waited for has ended.
TxResume(s) ==
    /\ sess[s].pc = "waiting"
    /\ ~Blocked(s, sess[s].events)
    /\ sess' = [sess EXCEPT ![s].pc = "open"]
    /\ UNCHANGED <<db, pending, clock, today, req, calls, stored0, result,
                   last, read, fetch, tasks, _refresh_status, aside>>

\* repo.session.commit(): the statement's inserts and updates reach the table
TxCommit(s) ==
    /\ sess[s].pc = "open"
    /\ db' = upsert_events(db, sess[s].events, sess[s].now).rows
    /\ BagCardinality(db') <= MaxRows
    /\ last' = [NoCall EXCEPT !.call = "commit",
                              !.events = sess[s].events,
                              !.count = Len(sess[s].events)]
    /\ sess' = [sess EXCEPT ![s].pc = "idle"]
    /\ UNCHANGED <<pending, clock, today, req, calls, stored0, result, read,
                   fetch, tasks, _refresh_status, aside>>

\* The request fails before its commit: get_session rolls back.
TxRollback(s) ==
    /\ sess[s].pc = "open"
    /\ sess' = [sess EXCEPT ![s].pc = "idle"]
    /\ last' = [NoCall EXCEPT !.call = "rollback"]
    /\ UNCHANGED <<db, pending, clock, today, req, calls, stored0, result,
                   read, fetch, tasks, _refresh_status, aside>>

NextRace ==
    \/ \E s \in Sessions : TxUpsert(s)
    \/ \E s \in Sessions : TxResume(s)
    \/ \E s \in Sessions : TxCommit(s)
    \/ \E s \in Sessions : TxRollback(s)

SpecRace == Init /\ [][NextRace]_vars

(***************************************************************************)
(* Properties                                                              *)
(***************************************************************************)
NaturalKey(x) == <<x.date, x.time, x.currency, x.event_name>>

EventFieldNames ==
    {"date", "time", "currency", "impact", "event_name", "actual",
     "forecast", "previous", "event_type", "direction", "weight"}

SameEvent(r, e) == \A f \in EventFieldNames : r[f] = e[f]

KeyCount(rows, k) ==
    BagCardinality([r \in {x \in BagToSet(rows) : NaturalKey(x) = k}
                        |-> CopiesIn(r, rows)])

\* A step of RepoUpsert: `last' holds its arguments and its return value.
UpsertStep ==
    /\ last'.call = "upsert_events"
    /\ clock' = clock
    /\ db' = db

\* C1: in every reachable store state no two stored events share the natural
\* key (date, time, currency, display name), events with a null time
\* included.
C1_UniqueNaturalKey ==
    \A r \in BagToSet(db) :
        /\ CopiesIn(r, db) = 1
        /\ \A q \in BagToSet(db) : q # r => NaturalKey(q) # NaturalKey(r)

\* C2: upserting an event that is already stored with the same values leaves
\* exactly one row for its key, returns the count of one updated row without
\* inserting anything, and keeps every non-timestamp field of the row.
C2_UpsertIdempotent ==
    [][UpsertStep =>
        \A i \in DOMAIN last'.events :
            LET e == last'.events[i]
            IN \A r \in BagToSet(pending) :
                  SameEvent(r, e) =>
                      /\ KeyCount(pending', NaturalKey(e)) = 1
                      /\ last'.count = 1
                      /\ BagCardinality(pending') = BagCardinality(pending)
                      /\ \A q \in BagToSet(pending') :
                            NaturalKey(q) = NaturalKey(e) =>
                                SameEvent(q, e) /\ q.surprise = r.surprise]_vars

\* C3: when the natural key of an upserted event is already stored, the
\* stored row takes the event's actual, forecast, previous, impact, category,
\* polarity, weight and surprise, last-updated is stamped, and the key fields
\* and the created-at timestamp stay as they were.  Stated for events that
\* carry a time, the keys on which the store does detect the conflict.
C3_ConflictOverwrites ==
    [][UpsertStep =>
        \A i \in DOMAIN last'.events :
            LET e == last'.events[i]
            IN \A r \in BagToSet(pending) :
                  (e.time # NULL /\ NaturalKey(r) = NaturalKey(e)) =>
                      /\ KeyCount(pending', NaturalKey(e)) = KeyCount(pending, NaturalKey(e))
                      /\ \E q \in BagToSet(pending') :
                            /\ NaturalKey(q) = NaturalKey(r)
                            /\ q.scraped_at = r.scraped_at
                            /\ q.actual = e.actual
                            /\ q.forecast = e.forecast
                            /\ q.previous = e.previous
                            /\ q.impact = e.impact
                            /\ q.event_type = e.event_type
                            /\ q.direction = e.direction
                            /\ q.weight = e.weight
                            /\ q.surprise = calculate_surprise(e.actual, e.forecast,
                                                               e.direction)
                            /\ q.updated_at = <<clock>>]_vars

(***************************************************************************)
(* Properties of the synchronisation policy                                *)
(***************************************************************************)
PassCalls(pass) == SelectSeq(calls, LAMBDA c : c.pass = pass)

CallDates(cs) == [i \in DOMAIN cs |-> cs[i].date]

\* q lists the members of S once each, in ascending order.
Enumerates(q, S) ==
    /\ Len(q) = Cardinality(S)
    /\ {q[i] : i \in DOMAIN q} = S
    /\ \A i, j \in DOMAIN q : i < j => q[i] < q[j]

HasStored(rows, d) == \E r \in BagToSet(rows) : r.date = d

\* Dates of the month that are today or later and hold an event without an
\* actual.
FlaggedDates(rows) ==
    {d \in Days : d >= today /\ \E r \in BagToSet(rows) : r.date = d /\ r.actual = NULL}

NormalFetchMonth == req.op = "fetch_month" /\ ~req.force

MonthPassOver ==
    req.pc \in {"dates", "dates_upsert", "dates_commit", "return", "done"}

AllFetchesOk == \A i \in DOMAIN calls : calls[i].ok

\* The store held events for a first stretch of the month and none for the
\* rest when the call started.
PrefixStored == \E k \in 1..(NumDays - 1) : stored0 = 1..k

C6_RescrapesExactlyFlagged ==
    /\ (NormalFetchMonth /\ req.pc = "dates" /\ req.idx = 1) =>
          Enumerates(req.todo, FlaggedDates(pending))
    /\ (NormalFetchMonth /\ req.pc = "done") =>
          {calls[i].date : i \in {j \in DOMAIN calls : calls[j].pass = "dates"}}
              = {req.todo[i] : i \in DOMAIN req.todo}

\* C7: a force fetchMonth fetches every day of the month, whatever the store
\* holds, and has no needs-refresh pass.
C7_ForceFetchesEveryDay ==
    (req.op = "fetch_month" /\ req.force) =>
        /\ req.pc \notin {"dates", "dates_upsert", "dates_commit"}
        /\ req.todo = <<>>
        /\ \A i \in DOMAIN calls : calls[i].pass = "month"
        /\ req.pc \in {"return", "done"} => Enumerates(CallDates(calls), Days)

C7_Witness ==
    /\ req.op = "fetch_month"
    /\ req.force
    /\ req.pc = "done"
    /\ result.kind = "ok"
    /\ stored0 = Days
    /\ Len(calls) = NumDays

\* A call ends without returning: the process dies or an exception escapes.
Interrupt == ~Free /\ result'.kind \in {"crashed", "raised"}

\* Days of the current call whose upsert has completed.
UpsertedDays ==
    {calls[i].date : i \in
        {j \in DOMAIN calls :
            /\ calls[j].ok
            /\ ~(j = Len(calls)
                 /\ req.pc \in {"month_upsert", "dates_upsert", "day_upsert"})}}

CommitStep ==
    /\ req.pc \in {"month_commit", "dates_commit", "day_commit"}
    /\ req'.pc \notin {"month_commit", "dates_commit", "day_commit"}
    /\ ~Interrupt

C9_FailedDaySkipped ==
    (req.op \in {"fetch_month", "refresh_month"} /\ req.pc = "done") =>
        /\ result.kind # "raised"
        /\ {req.todo[i] : i \in DOMAIN req.todo}
              \subseteq {calls[i].date : i \in {j \in DOMAIN calls : calls[j].pass = "dates"}}

Passes(currencies, high, e) ==
    /\ currencies # <<>> =>
          \E i \in DOMAIN currencies : Upper(currencies[i]) = Upper(e.currency)
    /\ high => e.impact = "high"

\* C10: fetchToday fetches today (and persists what it got) exactly when the
\* store held no event dated today when the call started, and otherwise
\* serves the stored events without fetching; either way the currency and
\* high-impact filters are applied to what it returns.
C10_FetchTodayPolicy ==
    req.op = "fetch_today" =>
        /\ Len(calls) <= 1
        /\ \A i \in DOMAIN calls : calls[i].pass = "day" /\ calls[i].date = today
        /\ today \in stored0 => calls = <<>> /\ req.pc \in {"today_return", "done"}
        /\ today \notin stored0 => req.pc = "day_fetch" \/ Len(calls) = 1
        /\ (req.pc = "done" /\ result.kind = "ok") =>
              /\ today \in stored0 =>
                    /\ Len(req.events) =
                          BagCardinality([r \in {x \in BagToSet(db) : x.date = today}
                                              |-> CopiesIn(r, db)])
                    /\ \A r \in BagToSet(db) :
                          r.date = today =>
                              \E i \in DOMAIN req.events : SameEvent(r, req.events[i])
              /\ today \notin stored0 =>
                    \A i \in DOMAIN req.events :
                        \E r \in BagToSet(db) : SameEvent(r, req.events[i])
              /\ result.events =
                    SelectSeq(req.events,
                              LAMBDA e : Passes(result.currencies, result.high, e))

C10_Witness ==
    /\ req.op = "fetch_today"
    /\ req.pc = "done"
    /\ result.kind = "ok"
    /\ today \in stored0
    /\ calls = <<>>
    /\ result.events # <<>>
    /\ Len(result.events) < Len(req.events)

(***************************************************************************)
(* Properties of the scraper's retry loop                                  *)
(***************************************************************************)
Failed(i) == fetch.attempts[i] # "ok"

FetchOver == fetch.pc \in {"returned", "raised"}

\* C11: when the first attempt of fetchDay fails with ParsingError, that
\* attempt is the only one made for the day and ParsingError is raised to the
\* caller at once.
C11_ParsingErrorNotRetried ==
    (fetch.attempts # <<>> /\ fetch.attempts[1] = "ParsingError") =>
        /\ Len(fetch.attempts) = 1
        /\ fetch.pc = "raised"
        /\ fetch.error = "ParsingError"

NoParsingFailure ==
    \A i \in DOMAIN fetch.attempts : fetch.attempts[i] # "ParsingError"

RetryBounded ==
    NoParsingFailure =>
        /\ Len(fetch.attempts) <= MaxAttempts
        /\ \A i \in DOMAIN fetch.attempts :
              ~Failed(i) => i = Len(fetch.attempts)
        /\ fetch.pc = "returned" <=>
              (fetch.attempts # <<>> /\ ~Failed(Len(fetch.attempts)))
        /\ fetch.pc = "returned" => fetch.events \in Pages(fetch.date)
        /\ fetch.pc = "raised" <=>
              /\ Len(fetch.attempts) = MaxAttempts
              /\ \A i \in DOMAIN fetch.attempts : Failed(i)
        /\ fetch.pc = "raised" => fetch.error \in ScraperErrors
        /\ fetch.pc = "attempt" => Len(fetch.attempts) < MaxAttempts

\* C12: with failures other than ParsingError, fetchDay makes at most three
\* attempts for a day: the first attempt that succeeds ends the call with its
\* events, three failures in a row end it with an error of the ScraperError
\* family, never a raw exception of the browser library, and every call that
\* started comes to one of these two ends.
C12_RetryBoundedAndEnds ==
    /\ []RetryBounded
    /\ (fetch.pc = "attempt") ~> FetchOver

C12_Witness ==
    /\ fetch.pc = "raised"
    /\ Len(fetch.attempts) = MaxAttempts
    /\ NoParsingFailure
    /\ fetch.attempts[MaxAttempts] = "WebDriverException"
    /\ fetch.error = "ScraperError"

PassesQuery(r, q) ==
    /\ q.start_date <= r.date
    /\ r.date <= q.end_date
    /\ q.currencies # <<>> =>
          \E i \in DOMAIN q.currencies : Upper(q.currencies[i]) = r.currency
    /\ q.impact # "" =>
          /\ ImpactLevel(r.impact) > 0
          /\ ImpactLevel(r.impact) >= ImpactLevel(Lower(q.impact))

\* The list holds every stored event that passes, as often as it is stored,
\* and nothing else.
ExactlyThePassing(events, rows, q) ==
    /\ \A i \in DOMAIN events :
          \E r \in BagToSet(rows) :
              PassesQuery(r, q) /\ _to_pydantic(r) = events[i]
    /\ \A r \in BagToSet(rows) :
          PassesQuery(r, q) =>
              Cardinality({i \in DOMAIN events : events[i] = _to_pydantic(r)})
                  = RowCount(rows, {x \in BagToSet(rows) :
                                       _to_pydantic(x) = _to_pydantic(r)})

\* Ascending by (date, time), an event without a time before the timed
\* events of its date.
NullFirstOrder(events) ==
    \A i, j \in DOMAIN events :
        i < j =>
            \/ events[i].date < events[j].date
            \/ /\ events[i].date = events[j].date
               /\ \/ events[i].time = NULL
                  \/ /\ events[j].time # NULL
                     /\ events[i].time[1] <= events[j].time[1]

\* C14: query(startDate, endDate, ...) returns exactly the stored events in
\* the date range that pass the filters, ascending by (date, time), the events
\* with a null time before all timed events of the same date.
C14_QueryExactAndOrdered ==
    read.call = "get_events" =>
        /\ ExactlyThePassing(read.events, pending, read)
        /\ NullFirstOrder(read.events)

ReadStep == read'.call # "none" /\ read' # read

RECURSIVE SumCounts(_)
SumCounts(cs) ==
    IF cs = <<>> THEN 0 ELSE Head(cs).count + SumCounts(Tail(cs))

\* The last day-fetch of the call is still between fetch and commit.
LastCallOpen ==
    req.pc \in {"month_upsert", "month_commit", "dates_upsert",
                "dates_commit", "day_upsert", "day_commit"}

Started(t) == tasks[t].pc \in {"running", "returned", "raised"}

Ended(t) == tasks[t].pc \in {"returned", "raised"}

Starts(t) == tasks[t].pc = "queued" /\ tasks'[t].pc = "running"

Returns(t) == tasks[t].pc = "running" /\ tasks'[t].pc = "returned"

Raises(t) == tasks[t].pc = "running" /\ tasks'[t].pc = "raised"

\* C17 as stated: the status is idle before the first refresh, running from
\* the moment a refresh task starts until it ends, completed or error after
\* it ended.
C17_Original ==
    /\ (\A t \in TaskIds : ~Started(t)) => _refresh_status.status = "idle"
    /\ (\E t \in TaskIds : tasks[t].pc = "running") =>
          _refresh_status.status = "running"
    /\ (/\ \E t \in TaskIds : Ended(t)
        /\ \A t \in TaskIds : tasks[t].pc # "running") =>
          _refresh_status.status \in {"completed", "error"}

\* C17 amended: the status is idle until the first refresh task starts; a
\* task writes running when it starts, completed when refreshMonth returned
\* and error when it raised, and nothing else writes the status.  So a status
\* of running means a task is running, no task ends leaving the status at
\* running, and a task that runs with no other task beside it keeps the
\* status at running from its start to its end.  With tasks that overlap the
\* status shows the latest start or end of any of them.
C17_Amended ==
    [][/\ (\A t \in TaskIds : ~Started(t)) => _refresh_status.status = "idle"
       /\ _refresh_status.status = "running" => Running # {}
       /\ \A t \in Running : tasks[t].alone => _refresh_status.status = "running"
       /\ \A t \in TaskIds :
             /\ Starts(t) => _refresh_status'.status = "running"
             /\ Returns(t) => _refresh_status'.status = "completed"
             /\ Raises(t) => _refresh_status'.status = "error"
       /\ _refresh_status' # _refresh_status =>
             \E t \in TaskIds : Starts(t) \/ Returns(t) \/ Raises(t)]_vars

C17_Witness ==
    /\ _refresh_status.status = "running"
    /\ \E t \in Running : tasks[t].alone
    /\ \E t \in TaskIds : tasks[t].pc = "returned"

(***************************************************************************)
(* What a concurrent reader sees of a month sync, and the order of the     *)
(* day-fetches                                                             *)
(***************************************************************************)
MonthSync == req.op \in {"fetch_month", "refresh_month"}

\* Rows of the committed table dated d, with their multiplicities.
DayRows(rows, d) ==
    [r \in {x \in BagToSet(rows) : x.date = d} |-> CopiesIn(r, rows)]

\* C18: a reader concurrent with a month sync reads the committed table,
\* which changes only by one day at a time: no date that has rows ever loses
\* them, and a change brings all the events of the day just upserted at
\* once, never only some of them, and touches no other date.
C18_ReaderSeesWholeDays ==
    [][MonthSync =>
          /\ \A d \in Days : HasStored(db, d) => HasStored(db', d)
          /\ db' # db =>
                /\ req.events # <<>>
                /\ \A i \in DOMAIN req.events :
                      \E r \in BagToSet(db') : SameEvent(r, req.events[i])
                /\ \A d \in Days :
                      d # req.events[1].date => DayRows(db', d) = DayRows(db, d)]_vars

C18_Witness ==
    /\ MonthSync
    /\ req.pc = "month"
    /\ req.day = NumDays
    /\ BagCardinality(DayRows(db, 1)) = 2
    /\ ~HasStored(db, NumDays)
    /\ stored0 = {}

\* C19: the day-fetches of one sync request are issued one at a time and in
\* ascending date order inside the month pass and inside the needs-refresh
\* pass, the month pass first; when a fetch is issued, the fetch, the upsert
\* and the commit of every earlier day of the request are over.
C19_OneDayAtATime ==
    [][/\ \A i, j \in DOMAIN calls :
             (i < j /\ calls[i].pass = calls[j].pass) =>
                 calls[i].date < calls[j].date
       /\ \A i, j \in DOMAIN calls :
             (calls[i].pass = "month" /\ calls[j].pass = "dates") => i < j
       /\ Len(calls') > Len(calls) =>
             /\ Len(calls') = Len(calls) + 1
             /\ ~LastCallOpen
             /\ pending = db
             /\ \A i \in DOMAIN calls :
                   calls[i].pass = calls'[Len(calls')].pass =>
                       calls[i].date < calls'[Len(calls')].date]_vars

C19_Witness ==
    /\ NormalFetchMonth
    /\ req.pc = "done"
    /\ Len(PassCalls("month")) = NumDays
    /\ Len(PassCalls("dates")) >= 2

(***************************************************************************)
(* Properties of concurrent upserts                                        *)
(***************************************************************************)
Commits(s) == sess[s].pc = "open" /\ sess'[s].pc = "idle" /\ last'.call = "commit"

KeysOf(events) == {NaturalKey(events[i]) : i \in DOMAIN events}

\* C20: when two sync requests upsert events with the same natural key at
\* the same time, each commit leaves exactly one row for the key, with all
\* its non-identity fields from the write being committed, so that the store
\* ends with the fields of the request that committed last and never a
\* mixture; rows of other keys stay as they are, so that upserts on
\* different keys both take effect.
C20_LastWriterWins ==
    [][\A s \in Sessions :
          (Commits(s) /\ sess[s].raced) =>
              /\ \A i \in DOMAIN sess[s].events :
                    LET e == sess[s].events[i]
                    IN /\ KeyCount(db', NaturalKey(e)) = 1
                       /\ \A q \in BagToSet(db') :
                             NaturalKey(q) = NaturalKey(e) => SameEvent(q, e)
              /\ \A r \in BagToSet(db) :
                    NaturalKey(r) \notin KeysOf(sess[s].events) =>
                        CopiesIn(r, db') = CopiesIn(r, db)]_vars

(***************************************************************************)
(* Failures of the store during a sync request                             *)
(***************************************************************************)
\* C21: a request in which upsert_events or session.commit() raised ends by
\* raising to its caller; it never returns normally.
C21_StoreFailurePropagates ==
    (req.pc = "done" /\ req.failed # "") => result.kind = "raised"

\* C22: a fetch_month in which every day-fetch failed, over a store that held
\* nothing for the month, is answered by GET /calendar/month with status 503;
\* it is not answered with a successful result.
C22_NoDataIsUpstreamFailure ==
    ( /\ req.op = "fetch_month"
      /\ req.pc = "done"
      /\ stored0 = {}
      /\ calls # <<>>
      /\ \A i \in DOMAIN calls : ~calls[i].ok )
    => get_calendar_month(result).status_code = 503

(***************************************************************************)
(* Stored events are kept                                                  *)
(***************************************************************************)
StoredKeys(rows) == {NaturalKey(r) : r \in BagToSet(rows)}

\* C23: no step of fetch_month, fetch_today or refresh_month removes a stored
\* event: every natural key the table holds is still held after the step,
\* by at least as many rows, whatever the re-scraped pages contain.
C23_SyncNeverRemoves ==
    [][\A k \in StoredKeys(db) : KeyCount(db', k) >= KeyCount(db, k)]_vars

\* A request has re-scraped a date that was stored before, its page came
\* without one of the stored events of that date, and the event is still
\* stored after the request.
C23_Witness ==
    /\ req.pc = "done"
    /\ result.kind = "ok"
    /\ calls # <<>>
    /\ LET c == calls[Len(calls)]
       IN /\ c.ok
          /\ c.date \in stored0
          /\ \E r \in BagToSet(db) :
                /\ r.date = c.date
                /\ NaturalKey(r) \notin KeysOf(req.events)

(***************************************************************************)
(* delete_events_for_month and has_events_for_month                        *)
(***************************************************************************)
\* A step of RepoDeleteMonth: `last' holds its month and its return value.
DeleteStep == last'.call = "delete_events_for_month" /\ read'.call = "none"

\* A step of RepoHasEvents: `read' holds its month and its return value.
HasEventsStep == read'.call = "has_events_for_month" /\ read' # read

InMonth(r, month) == r.date \in MonthDays(month)

\* C24: delete_events_for_month removes exactly the stored events dated in the
\* month, returns their number and leaves the events of other months as they
\* are; has_events_for_month is true exactly when a stored event is dated in
\* the month, and false when asked right after the month's deletion.
C24_DeleteMonthExact ==
    [][ /\ DeleteStep =>
            /\ \A r \in BagToSet(pending) \cup BagToSet(pending') :
                  CopiesIn(r, pending') =
                     IF InMonth(r, last'.month) THEN 0
                     ELSE CopiesIn(r, pending)
            /\ last'.count =
                  BagCardinality(pending) - BagCardinality(pending')
            /\ db' = pending'
        /\ HasEventsStep =>
            /\ read'.has <=>
                  \E r \in BagToSet(pending) :
                     r.date \in read'.start_date..read'.end_date
            /\ ( /\ last.call = "delete_events_for_month"
                 /\ read'.start_date = MonthStart(last.month) )
               => ~read'.has ]_vars

\* A month with stored events was deleted while the other month had events
\* too, and has_events_for_month was then asked about the deleted month.
C24_Witness ==
    /\ last.call = "delete_events_for_month"
    /\ last.count >= 2
    /\ pending # EmptyBag
    /\ read.call = "has_events_for_month"
    /\ read.start_date = MonthStart(last.month)
    /\ ~read.has

(***************************************************************************)
(* fetch_month served from the store                                       *)
(***************************************************************************)
\* The second of two back-to-back calls has returned; the first was a
\* non-force call whose day-fetches all returned, and no stored event had a
\* null actual on a today-or-future date when the second call started.
SecondCallOver ==
    /\ req.pc = "done"
    /\ req.again
    /\ result.kind = "ok"
    /\ prior.filled

\* The call issued no day-fetch and, asked with the filters of the first
\* call, returned the events the first call returned.
ServedFromStore ==
    /\ calls = <<>>
    /\ (result.currencies = prior.currencies /\ result.impact = prior.impact)
       => result.events = prior.events

C26_MonthFullyShaped ==
    /\ scrape.pc # "raised"
    /\ scrape.pc = "loop" =>
          /\ Len(scrape.days) = scrape.day - 1
          /\ \A d \in scrape.failed : d < scrape.day
    /\ scrape.pc = "returned" =>
          /\ Len(scrape.days) = NumDays
          /\ \A i \in 1..NumDays : scrape.days[i].date = i
          /\ \A d \in scrape.failed : scrape.days[d].events = <<>>

\* A month came back whose first day failed and whose later day has events.
C26_Witness ==
    /\ scrape.pc = "returned"
    /\ 1 \in scrape.failed
    /\ scrape.days[NumDays].events # <<>>

(***************************************************************************)
(* The page parser                                                         *)
(***************************************************************************)
Latest(S) == CHOOSE i \in S : \A j \in S : j <= i

\* Selected rows at or above position i with a non-empty time text, and
\* those with a date text that parses.
TimedRows(html, i) ==
    {j \in 1..i : html[j].class = "calendar__row" /\ html[j].time # ""}

DatedRows(html, i) ==
    {j \in 1..i : /\ html[j].class = "calendar__row"
                  /\ ParseDateText(html[j].date) # NULL}

\* C27: every event the parser emits has the time of the latest row at or
\* above its own that has a non-empty time cell (no time when there is
\* none), and the date of the latest such row with a parseable date cell
\* (the target date when there is none).
C27_TimeAndDateCarried ==
    parse.out.kind = "returned" =>
       \A k \in DOMAIN parse.out.events :
          LET e == parse.out.events[k]
              timed == TimedRows(parse.html, e.row)
              dated == DatedRows(parse.html, e.row)
          IN /\ e.time = IF timed = {} THEN NULL
                         ELSE _parse_time(parse.html[Latest(timed)].time)
             /\ e.date = IF dated = {} THEN parse.target_date
                         ELSE ParseDateText(parse.html[Latest(dated)].date)[1]

\* An event of a row without time and date cells took the time and the date
\* of an earlier row.
C27_Witness ==
    /\ parse.out.kind = "returned"
    /\ \E k \in DOMAIN parse.out.events :
          LET e == parse.out.events[k]
          IN /\ parse.html[e.row].time = ""
             /\ parse.html[e.row].date = ""
             /\ e.time # NULL
             /\ e.date # parse.target_date

\* The markup holds a row of a layout the selectors do not know.
Unexpected(html) == \E i \in DOMAIN html : html[i].class # "calendar__row"

\* C28: markup that is not empty but of an unexpected structure never comes
\* back from the parser as a plain empty list of events.
C28_NoSilentEmpty ==
    (parse.pc = "done" /\ Unexpected(parse.html))
    => ~(parse.out.kind = "returned" /\ parse.out.events = <<>>)

\* C29: a name whose trimmed, lower-cased form is in the exact table gets that
\* entry's metadata whatever patterns match it; otherwise the metadata is that
\* of a matching pattern of the highest priority among the matching ones; with
\* no matching pattern it is (other, +1, 1).
C29_ClassificationOrder ==
    meta.pc = "done" =>
        LET n == _normalize_event_name(meta.event_name)
            matching == {i \in DOMAIN meta.patterns :
                            Search(meta.patterns[i].pattern, meta.event_name)}
        IN IF n \in DOMAIN EXACT_EVENT_MAPPING
           THEN meta.out = EXACT_EVENT_MAPPING[n]
           ELSE IF matching # {}
           THEN \E i \in matching :
                   /\ \A j \in matching :
                         meta.patterns[j].priority <= meta.patterns[i].priority
                   /\ meta.out = meta.patterns[i].metadata
           ELSE meta.out = EventMetadata("other", 1, 1)

\* A name outside the exact table that two patterns match, the one of lower
\* priority written first, classified by the one of higher priority.
C29_Witness ==
    /\ meta.pc = "done"
    /\ _normalize_event_name(meta.event_name) \notin DOMAIN EXACT_EVENT_MAPPING
    /\ \E i, j \in DOMAIN meta.patterns :
          /\ i < j
          /\ Search(meta.patterns[i].pattern, meta.event_name)
          /\ Search(meta.patterns[j].pattern, meta.event_name)
          /\ meta.patterns[i].priority < meta.patterns[j].priority
          /\ meta.out = meta.patterns[j].metadata
          /\ meta.out # meta.patterns[i].metadata

\* C30: the surprise is non-null exactly when actual and forecast are both
\* present and the forecast is not 0, and then it equals
\* direction * (actual - forecast) / |forecast|.
C30_SurpriseDefined ==
    score.pc = "done" =>
        LET present == /\ score.actual # NULL
                       /\ score.forecast # NULL
                       /\ score.forecast[1] # 0
        IN /\ (score.out # NULL) <=> present
           /\ present =>
                 LET f == score.forecast[1]
                     size == IF f < 0 THEN 0 - f ELSE f
                 IN /\ score.out[1].den > 0
                    /\ score.out[1].num * size =
                          score.direction * (score.actual[1] - f)
                             * score.out[1].den

\* An actual above a negative forecast, higher being bullish: a positive
\* surprise.
C30_Witness ==
    /\ score.pc = "done"
    /\ score.actual # NULL
    /\ score.forecast # NULL
    /\ score.forecast[1] < 0
    /\ score.actual[1] > score.forecast[1]
    /\ score.direction = 1
    /\ score.out # NULL
    /\ score.out[1].num > 0

\* C31: the signal is BULLISH exactly when the bias is above the threshold,
\* BEARISH exactly when it is below minus the threshold and NEUTRAL in every
\* other case, a bias on either boundary included; it is always one of the
\* three.
C31_SignalStrict ==
    signal.pc = "done" =>
        /\ signal.out \in {"BULLISH", "BEARISH", "NEUTRAL"}
        /\ (signal.out = "BULLISH") <=> (signal.bias > signal.threshold)
        /\ (signal.out = "BEARISH") <=> (signal.bias < 0 - signal.threshold)
        /\ (signal.bias = signal.threshold \/ signal.bias = 0 - signal.threshold)
              => signal.out = "NEUTRAL"

\* A bias on the boundary of a positive threshold, reported neutral.
C31_Witness ==
    /\ signal.pc = "done"
    /\ signal.threshold > 0
    /\ signal.bias = 0 - signal.threshold
    /\ signal.out = "NEUTRAL"

\* The value a is at most the value b.
AtMost(a, b) ==
    \/ a.zero
    \/ ~b.zero /\ a.num * b.den >= b.num * a.den

\* The value is 0.5 ** (minutes / (60 * half_life_hours)), not rounded to 0.
IsPower(v, minutes, half_life_hours) ==
    /\ ~v.zero
    /\ v.num * 60 * half_life_hours = minutes * v.den

\* The call fails for a half-life that is not positive, returns 1.0 for an
\* event at or after the reference time, and for an earlier event a value
\* that no call on a still earlier event exceeds.
DecayShape(lowest) ==
    decay.pc = "done" =>
        IF decay.half_life_hours <= 0 THEN decay.out.kind = "ValueError"
        ELSE /\ decay.out.kind = "ok"
             /\ decay.event_time >= decay.reference_time
                   => decay.out.value = One
             /\ lowest
             /\ AtMost(decay.out.value, One)
             /\ \A earlier \in Instants :
                   earlier <= decay.event_time =>
                      AtMost(calculate_decay(earlier, decay.reference_time,
                                             decay.half_life_hours).value,
                             decay.out.value)

\* C33 as stated: with a positive half-life the result is 0.5 to the power
\* (hours elapsed / half-life) for every earlier event, hence above 0.
C33_Original ==
    DecayShape(decay.event_time < decay.reference_time
                  => IsPower(decay.out.value,
                             decay.reference_time - decay.event_time,
                             decay.half_life_hours))

\* C33 as amended: the result is that power as a double, which is 0.0 from
\* 1075 half-lives on; it lies in [0, 1].
C33_Amended ==
    DecayShape(decay.event_time < decay.reference_time
                  => IF decay.reference_time - decay.event_time
                           >= FloatUnderflow * 60 * decay.half_life_hours
                     THEN decay.out.value.zero
                     ELSE IsPower(decay.out.value,
                                  decay.reference_time - decay.event_time,
                                  decay.half_life_hours))

\* An event two half-lives before the reference time: a quarter.
C33_Witness ==
    /\ decay.pc = "done"
    /\ decay.half_life_hours > 0
    /\ decay.reference_time - decay.event_time
          = 2 * 60 * decay.half_life_hours
    /\ decay.out.kind = "ok"
    /\ ~decay.out.value.zero
    /\ decay.out.value.num = 2 * decay.out.value.den

FracEq(a, b) == a.num * b.den = b.num * a.den

\* The stored event counts for the currency at the reference time: it is of
\* that currency whatever the case of the letters, dated inside the lookback
\* window, and has a surprise.
Contributes(r, currency, at_time) ==
    /\ Upper(r.currency) = Upper(currency)
    /\ r.date >= at_time.date - Config.lookback_days
    /\ r.date <= at_time.date
    /\ calculate_surprise(r.actual, r.forecast, r.direction) # NULL

\* eventForce of a stored event at the reference time.
ForceOf(r, at_time) ==
    calculate_event_force(
        calculate_surprise(r.actual, r.forecast, r.direction)[1],
        r.weight,
        DecayFraction(calculate_decay(Minutes(r.date, r.time),
                                      Minutes(at_time.date, at_time.time),
                                      Config.half_life_hours).value))

RECURSIVE SumForces(_, _, _)
\* The sum of eventForce over the rows of S, each as often as it is stored.
SumForces(S, rows, at_time) ==
    IF S = {} THEN Frac(0, 1)
    ELSE LET r == CHOOSE x \in S : TRUE
             f == ForceOf(r, at_time)
         IN FracAdd(Frac(f.num * CopiesIn(r, rows), f.den),
                    SumForces(S \ {r}, rows, at_time))

C38_PairBiasAntisymmetric ==
    /\ bias.call = "get_pair_bias" =>
          LET sb == get_currency_score(pending, Config, bias.base, bias.at_time)
              sq == get_currency_score(pending, Config, bias.quote, bias.at_time)
              back == get_pair_bias(pending, Config, bias.quote, bias.base,
                                    bias.at_time)
          IN /\ FracEq(bias.out.value,
                       Frac(sb.num * sq.den - sq.num * sb.den, sb.den * sq.den))
             /\ FracEq(bias.out.value, Frac(0 - back.num, back.den))
             /\ bias.base = bias.quote => bias.out.value.num = 0
    /\ bias.call = "get_bias_signal" =>
          ((bias.out.value = "BULLISH")
              <=> (ServiceBiasSignal(pending, Config, bias.quote, bias.base,
                                     bias.at_time) = "BEARISH"))

\* A pair of two currencies reported bullish.
C38_Witness ==
    /\ bias.call = "get_bias_signal"
    /\ Upper(bias.base) # Upper(bias.quote)
    /\ bias.out.value = "BULLISH"
    /\ get_currency_score(pending, Config, bias.quote, bias.at_time).num # 0

\* ---- C34 ----
\* The grammar of the value normalizer, stated by splitting a string into
\* its parts: blanks, an optional comparison marker, an optional sign, a
\* number (digits and thousands separators, at most one decimal point after
\* them, at least one digit), blanks, an optional unit, blanks.
Blank(s, i, j) == \A k \in (i + 1)..j : s[k] = " "

IsNumber(s, i, j) ==
    /\ i < j
    /\ s[i + 1] \in Digits \cup {","}
    /\ \A k \in (i + 1)..j : s[k] \in Digits \cup {",", "."}
    /\ \A k \in (i + 1)..j :
          s[k] = "." => \A l \in (k + 1)..j : s[l] \in Digits
    /\ \E k \in (i + 1)..j : s[k] \in Digits

\* The number s spells between i and j: every digit weighs ten to the
\* count of digits after it, and the digits after the point give the scale.
NumberOf(s, i, j) ==
    LET digits == {k \in (i + 1)..j : s[k] \in Digits}
        after(k) == Cardinality({l \in digits : l > k})
        RECURSIVE Sum(_)
        Sum(K) == IF K = {} THEN 0
                  ELSE LET k == CHOOSE x \in K : TRUE
                       IN DigitValue(s[k]) * 10 ^ after(k) + Sum(K \ {k})
        points == {k \in (i + 1)..j : s[k] = "."}
    IN [mant |-> Sum(digits),
        scale |-> IF points = {} THEN 0
                  ELSE 0 - Cardinality({l \in digits :
                                          \E p \in points : l > p})]

\* The power of ten a unit stands for.
UnitScale(s, i, j) ==
    IF i = j THEN 0
    ELSE CASE s[j] \in {"K", "k"} -> 3
           [] s[j] \in {"M", "m"} -> 6
           [] s[j] \in {"B", "b"} -> 9
           [] s[j] \in {"T", "t"} -> 12
           [] s[j] = "%" -> 0 - 2

\* The values the grammar gives s: none when s is outside the grammar.
GrammarValues(s) ==
    LET n == Len(s)
    IN UNION {UNION {UNION {UNION {UNION {
         {[mant |-> (IF c - b = 1 /\ s[c] = "-" THEN 0 - 1 ELSE 1)
                       * NumberOf(s, c, d).mant,
           scale |-> NumberOf(s, c, d).scale + UnitScale(s, e, f)] :
            f \in {x \in e..n :
                     /\ x - e <= 1
                     /\ x - e = 1 =>
                           s[x] \in {"K", "k", "M", "m", "B", "b", "T", "t",
                                     "%"}
                     /\ Blank(s, x, n)}} :
            e \in {x \in d..n : Blank(s, d, x)}} :
            d \in {x \in c..n : IsNumber(s, c, x)}} :
            c \in {x \in b..n : x - b <= 1
                                /\ (x - b = 1 => s[x] \in {"+", "-"})}} :
            b \in {x \in a..n : x - a <= 1
                                /\ (x - a = 1 => s[x] \in {"<", ">"})}} :
            a \in {x \in 0..n : Blank(s, 0, x)}}

\* Two scaled numbers are the same number.
SameNumber(x, y) ==
    LET low == IF x.scale < y.scale THEN x.scale ELSE y.scale
    IN x.mant * 10 ^ (x.scale - low) = y.mant * 10 ^ (y.scale - low)

\* C34: normalize_value returns None for None and for every string outside
\* the grammar, blank strings and strings that only start like a value
\* included; for a string of the grammar it returns the signed number
\* scaled by its unit, whatever the comparison marker in front.
C34_NormalizeGrammar ==
    norm.pc = "done" =>
        IF norm.value = NULL THEN norm.out = NULL
        ELSE /\ GrammarValues(norm.value[1]) = {} => norm.out = NULL
             /\ \A v \in GrammarValues(norm.value[1]) :
                   norm.out # NULL /\ SameNumber(norm.out[1], v)

C34_Witness ==
    /\ norm.pc = "done"
    /\ norm.value = << <<"<", "-", "1", "K">> >>
    /\ norm.out = <<[mant |-> 0 - 1, scale |-> 3]>>

\* ---- C37 ----
\* The rows the parser looks at that have both a currency text and an event
\* name.
NamedRows(html) ==
    {i \in DOMAIN html : /\ html[i].class = "calendar__row"
                          /\ html[i].currency # ""
                          /\ html[i].event # ""}

C35_ReturnsStoredView ==
    (req.op = "fetch_month" /\ req.pc = "done" /\ result.kind = "ok") =>
        /\ ExactlyThePassing(result.events, db,
                             [start_date |-> 1, end_date |-> NumDays,
                              currencies |-> result.currencies,
                              impact |-> result.impact])
        /\ result.impact # "" =>
              \A i \in DOMAIN result.events :
                  result.events[i].impact \in {"low", "medium", "high"}

\* A call that scraped day 1, stored its holiday and returned without it.
C35_Witness ==
    /\ req.op = "fetch_month" /\ req.pc = "done" /\ result.kind = "ok"
    /\ 1 \notin stored0
    /\ result.currencies = <<"usd">> /\ result.impact = "Medium"
    /\ \E r \in BagToSet(db) : r.date = 1 /\ r.impact = "holiday"
    /\ result.events # <<>>
    /\ \A i \in DOMAIN result.events : result.events[i].currency = "USD"

\* ---- C36 ----
\* C36: however fetch_month, fetch_today or refresh_month ends, by a return,
\* after a day's failure was logged and passed over, or by an exception,
\* the browser of its scraping passes is closed and its store session is
\* closed with no uncommitted change left in it; and no browser is open
\* between two scraping passes.
C36_ReleasedOnEveryExit ==
    /\ held.pc = "ended" =>
          /\ ~held.browser
          /\ held.session = "closed"
          /\ ~held.dirty
          /\ held.exit \in {"returned", "raised"}
    /\ held.browser => held.session = "open"
    /\ held.pc \in {"needs_update", "return_query", "commit", "except",
                    "finally"} => ~held.browser

\* An exception left the needs-refresh pass after its browser had started
\* and with a change not yet committed.
C36_Witness ==
    /\ held.pc = "ended"
    /\ held.op = "fetch_month"
    /\ held.exit = "raised"
    /\ held.swallowed
    /\ held.lost

\* ---- C39 ----
\* The status shows the end of a task.
ShowsResult == _refresh_status.status \in {"completed", "error"}

\* The status goes from a task's result back to running only as a task
\* starts, whose run it then describes.
BackToRunningByStart ==
    (ShowsResult /\ _refresh_status'.status = "running") =>
        \E t \in TaskIds : Starts(t)

\* C39 as stated: with refresh tasks that overlap, the status reads
\* completed or error only when no refresh task is in progress, and it
\* goes back to running only for a task that starts.
C39_Original ==
    /\ [](ShowsResult => Running = {})
    /\ [][BackToRunningByStart]_vars

\* C39 amended: the status is the latest write of any task.  While it reads
\* completed or error, every refresh task still in progress is one that
\* overlapped another task; a task that has been the only one running since
\* it started never meets a result in the status.  The status goes back to
\* running only as a task starts.
C39_Amended ==
    /\ [](ShowsResult => \A t \in Running : ~tasks[t].alone)
    /\ [][BackToRunningByStart]_vars

\* One of two overlapping tasks has ended and the status shows its result
\* while the other is still in progress.
C39_Witness ==
    /\ ShowsResult
    /\ Running # {}
    /\ \E t \in TaskIds : Ended(t)

====
